---- MODULE Spec2Model ----
(***************************************************************************)
(* The contract build scheduler of the Solidity-to-zkEVM compiler:         *)
(* Project::new, Project::compile, Project::compile_all and the            *)
(* <Project as Dependency> callbacks (compiler_solidity/src/project/mod.rs)*)
(* together with the part of Contract::compile and of main_inner that      *)
(* drives them.                                                            *)
(*                                                                         *)
(* A worker thread is a stack of Project::compile calls: the bottom frame  *)
(* is the call made by a compile_all task, every further frame is a call   *)
(* made by Dependency::compile from inside the lowering of the frame       *)
(* below it.  Every step that takes the table's RwLock, and every step on  *)
(* the Condvar of a waiter, is an action of its own, so that the           *)
(* interleavings of the workers are those of the program.                  *)
(***************************************************************************)
EXTENDS Integers, Sequences, FiniteSets, TLC

VARIABLES
    contract_states,  \* Project.contract_states: path -> state
    lock,             \* writer of the RwLock around the project, 0 = none
    stack,            \* per worker thread: its nested Project::compile calls
    pending,          \* compile_all: contract paths not yet handed to a worker
    compileCount,     \* per path: how many times Contract::compile was entered
    requested,        \* per path: the paths its lowering asked for
    panicked,         \* a worker has panicked
    result,           \* the value compile_all returned
    output,           \* what main_inner did with it
    contracts,        \* per path: the Contract being compiled and its progress
    instructions,     \* the instruction list of one code section
    offset,           \* get_blocks: the scanning position
    blocks,           \* get_blocks: block key -> Block
    spans,            \* the (start, size) of every block-builder call
    visited,          \* EtherealIR::new: the (key, stack hash) pairs seen
    worklist,         \* Function::new: the block entries still to walk
    emitted,          \* Function::new: the block instances of the function
    ir,               \* the progress and the result of the assembly
    evmla_stack,      \* context.evmla().stack: the slots of the stack
    height,           \* the height of the symbolic stack
    lowering,         \* the element lowered last and what lowering it did
    yul,              \* the Yul function call translated last and its effect
    lexer,            \* the tokens of the source and the parser run on them
    parsed,           \* what the parser returned and where it stopped
    assembly,         \* the Assembly a dependency pass runs on
    passed,           \* what the dependency pass returned
    directory,        \* the files of the output directory: name -> content
    written,          \* what write_to_directory returned
    factory,          \* per path: the factory dependencies still to collect
    plan              \* per path: what the source of the contract makes
                      \* its compilation do

\* The variables of the build scheduler (Project).
schedulerVars == <<contract_states, lock, stack, pending, compileCount,
                   requested, panicked, result, output>>
\* The variables of the compilation of one contract (Contract::compile).
contractVars == <<contracts>>

\* The variables of the Ethereal IR of one code section (EtherealIR).
irVars == <<instructions, offset, blocks, spans, visited, worklist, emitted,
            ir>>

\* The variables of the instruction translators (Element, FunctionCall).
translatorVars == <<evmla_stack, height, lowering, yul>>

\* The variables of the Yul parsers (parse_contract, Object, Block,
\* FunctionDefinition, VariableDeclaration).
parserVars == <<lexer, parsed>>

\* The variables of the dependency passes of the legacy assembly (Assembly).
assemblyVars == <<assembly, passed>>

\* The variables of the output of a build (build::Contract).
buildVars == <<directory, written>>

\* What the sources of the contracts hold: the factory dependencies they
\* declare (Contract::drain_factory_dependencies) and what their lowering
\* does.
factoryVars == <<factory, plan>>

vars == <<schedulerVars, contractVars, irVars, translatorVars, parserVars,
          assemblyVars, buildVars, factoryVars>>

\* What the steps of one component leave alone: the other components.
otherThanScheduler == <<contractVars, irVars, translatorVars, parserVars,
                        assemblyVars, buildVars>>
exceptScheduler == <<otherThanScheduler, factoryVars>>
exceptContract == <<schedulerVars, irVars, translatorVars, parserVars,
                    assemblyVars, buildVars, factoryVars>>
exceptIR == <<schedulerVars, contractVars, translatorVars, parserVars,
              assemblyVars, buildVars, factoryVars>>
exceptTranslator == <<schedulerVars, contractVars, irVars, parserVars,
                      assemblyVars, buildVars, factoryVars>>
exceptParser == <<schedulerVars, contractVars, irVars, translatorVars,
                  assemblyVars, buildVars, factoryVars>>
exceptAssembly == <<schedulerVars, contractVars, irVars, translatorVars,
                    parserVars, buildVars, factoryVars>>
exceptBuild == <<schedulerVars, contractVars, irVars, translatorVars,
                 parserVars, assemblyVars, factoryVars>>

\* ------------------------------------------------------------------ bounds
NumContracts == 2
NumWorkers == 2
MaxRequests == 1

Paths == 1..NumContracts
Threads == 1..NumWorkers
NoThread == 0
\* A name that is the identifier of no contract of the project.
UnknownName == 0
\* The identifiers a lowering may ask for: a name, with or without the
\* "_deployed" suffix of a runtime object.
Identifiers == [name : Paths \cup {UnknownName}, deployed : BOOLEAN]

\* ------------------------------------------------------ contract states
\* Each state carries the path of the contract it belongs to: the contract of
\* a Source, the handle of a Waiter, the artifact of a Build, the error that
\* ended the compilation of that contract.
Source(p) == [kind |-> "Source", of |-> p]
Waiter(p) == [kind |-> "Waiter", of |-> p]
Build(p) == [kind |-> "Build", of |-> p]
Error(p) == [kind |-> "Error", of |-> p]
\* The key is not in the map (between `remove` and `insert`).
Absent == [kind |-> "Absent", of |-> 0]

Resolved == {"Build", "Error"}

\* Contract::identifier: the identifier a contract is known under.
Identifier(p) == p

\* Project::new, identifier_paths: identifier -> path, later paths overwrite.
IdentifierPaths ==
    [i \in {Identifier(p) : p \in Paths} |->
        CHOOSE p \in Paths :
            /\ Identifier(p) = i
            /\ \A q \in Paths : Identifier(q) = i => q <= p]

\* `identifier.strip_suffix("_deployed").unwrap_or(identifier)`
StripDeployedSuffix(id) == id.name

\* Project::resolve_path: the path of the contract an identifier names.
ResolvePath(id) ==
    LET name == StripDeployedSuffix(id)
    IN  IF name \in DOMAIN IdentifierPaths
        THEN [ok |-> TRUE, path |-> IdentifierPaths[name]]
        ELSE [ok |-> FALSE, path |-> 0]

\* Project::new, contract_states: every contract starts as Source.
NewContractStates == [p \in Paths |-> Source(p)]

\* ------------------------------------------------------------- call frames
Frame(p, pc) == [path |-> p, pc |-> pc, st |-> Absent, nreq |-> 0, dep |-> 0]

Top(t) == stack[t][Len(stack[t])]
Running(t) == stack[t] # <<>>
At(t, pc) == Running(t) /\ Top(t).pc = pc
SetTop(s, f) == [i \in 1..Len(s) |-> IF i = Len(s) THEN f ELSE s[i]]

\* The callee returns: its frame is dropped and the caller, which was inside
\* Dependency::compile, goes on to read the callee's state.
Return(s) ==
    LET rest == SubSeq(s, 1, Len(s) - 1)
    IN  IF rest = <<>> THEN rest
        ELSE SetTop(rest, [rest[Len(rest)] EXCEPT !.pc = "dep_read"])

\* No contract is being followed through Contract::compile.
ContractIdle == contracts = <<>>

\* No instruction list is being assembled.
IRIdle ==
    /\ instructions = <<>>
    /\ offset = 0
    /\ blocks = <<>>
    /\ spans = <<>>
    /\ visited = {}
    /\ worklist = <<>>
    /\ emitted = <<>>
    /\ ir = [pc |-> "idle", error |-> "none", visits |-> 0]

\* No element and no function call is being translated.
TranslatorIdle ==
    /\ evmla_stack = <<>>
    /\ height = 0
    /\ lowering = [pc |-> "idle"]
    /\ yul = [pc |-> "idle"]

\* No source is being parsed.
ParserIdle ==
    /\ lexer = [pc |-> "idle"]
    /\ parsed = [pc |-> "idle"]

\* No dependency pass is running.
AssemblyIdle ==
    /\ assembly = [pc |-> "idle"]
    /\ passed = [pc |-> "idle"]

\* No build is being written out.
BuildIdle ==
    /\ directory = <<>>
    /\ written = [pc |-> "idle"]

\* The contracts declare no factory dependencies.
NoFactoryDependencies == [p \in Paths |-> {}]

\* Nothing is laid down about what the compilations do.
NoPlan == <<>>

Init ==
    /\ contract_states = NewContractStates
    /\ lock = NoThread
    /\ stack = [t \in Threads |-> <<>>]
    /\ pending = Paths
    /\ compileCount = [p \in Paths |-> 0]
    /\ requested = [p \in Paths |-> {}]
    /\ panicked = FALSE
    /\ result = [kind |-> "none", builds |-> {}, error |-> Absent]
    /\ output = [status |-> "running", files |-> {}]
    /\ factory = NoFactoryDependencies
    /\ plan = NoPlan
    /\ ContractIdle
    /\ IRIdle
    /\ TranslatorIdle
    /\ ParserIdle /\ AssemblyIdle /\ BuildIdle

\* No project is being built: the scheduler has nothing to hand out.
SchedulerIdle ==
    /\ contract_states = NewContractStates
    /\ lock = NoThread
    /\ stack = [t \in Threads |-> <<>>]
    /\ pending = {}
    /\ compileCount = [p \in Paths |-> 0]
    /\ requested = [p \in Paths |-> {}]
    /\ panicked = FALSE
    /\ result = [kind |-> "none", builds |-> {}, error |-> Absent]
    /\ output = [status |-> "running", files |-> {}]
    /\ factory = NoFactoryDependencies
    /\ plan = NoPlan

\* ------------------------------------------------------------ compile_all
\* A pool worker takes one of the closures of the parallel iterator, in any
\* order.
StartTask(t, p) ==
    /\ ~Running(t)
    /\ p \in pending
    /\ pending' = pending \ {p}
    /\ stack' = [stack EXCEPT ![t] = <<Frame(p, "start")>>]
    /\ UNCHANGED exceptScheduler
    /\ UNCHANGED <<contract_states, lock, compileCount, requested, panicked,
                   result, output>>

\* A mutation of the guard: a temporary of the `remove` statement, dropped
\* at its end.
ProjectGuardTemporary(t) == NoThread

\* `let mut project_guard = project.write().expect("Sync")`: the guard lives
\* until it is dropped or the function returns.
ProjectGuard(t) == t

\* ------------------------------------------------------- Project::compile
\* `project.write()` and `contract_states.remove(contract_path)`: the call
\* waits for the lock, takes it, and moves the state out of the map into the
\* scrutinee of the match.
Remove(t) ==
    /\ At(t, "start")
    /\ lock = NoThread
    /\ lock' = ProjectGuard(t)
    /\ contract_states' = [contract_states EXCEPT ![Top(t).path] = Absent]
    /\ stack' = [stack EXCEPT ![t] =
                    SetTop(@, [Top(t) EXCEPT !.pc = "removed",
                                             !.st = contract_states[Top(t).path]])]
    /\ UNCHANGED exceptScheduler
    /\ UNCHANGED <<pending, compileCount, requested, panicked, result, output>>

SourceBranchStateKept(p, st) == st
\* Source branch: the state inserted in place of the removed Source.
SourceBranchState(p, st) == Waiter(p)

GuardAfterSwapKept(t) == t
\* Source and Waiter branches: `std::mem::drop(project_guard)` frees the lock.
GuardAfterSwap(t) == NoThread

\* ContractState::Source: swap in the waiter, drop the guard, then enter
\* Contract::compile outside of the lock.
MatchSource(t) ==
    /\ At(t, "removed")
    /\ Top(t).st.kind = "Source"
    /\ contract_states' = [contract_states EXCEPT ![Top(t).path] =
                              SourceBranchState(Top(t).path, Top(t).st)]
    /\ lock' = GuardAfterSwap(t)
    /\ compileCount' = [compileCount EXCEPT ![Top(t).path] = @ + 1]
    /\ stack' = [stack EXCEPT ![t] =
                    SetTop(@, [Top(t) EXCEPT !.pc = "lowering", !.st = Absent])]
    /\ UNCHANGED exceptScheduler
    /\ UNCHANGED <<pending, requested, panicked, result, output>>

WaiterBranchStateReset(st) == Source(st.of)
\* Waiter branch: the waiter is put back as it was.
WaiterBranchState(st) == st

\* ContractState::Waiter: put the waiter back and drop the guard.
MatchWaiter(t) ==
    /\ At(t, "removed")
    /\ Top(t).st.kind = "Waiter"
    /\ contract_states' = [contract_states EXCEPT ![Top(t).path] =
                              WaiterBranchState(Top(t).st)]
    /\ lock' = GuardAfterSwap(t)
    /\ stack' = [stack EXCEPT ![t] =
                    SetTop(@, [Top(t) EXCEPT !.pc = "prewait", !.st = Absent])]
    /\ UNCHANGED exceptScheduler
    /\ UNCHANGED <<pending, compileCount, requested, panicked, result, output>>

ResolvedBranchStateReset(st) == Source(st.of)
\* Build and Error branches: the state is put back as it was.
ResolvedBranchState(st) == st

\* ContractState::Build / ContractState::Error: put the state back; the guard
\* is dropped when the function returns.
MatchResolved(t) ==
    /\ At(t, "removed")
    /\ Top(t).st.kind \in Resolved
    /\ contract_states' = [contract_states EXCEPT ![Top(t).path] =
                              ResolvedBranchState(Top(t).st)]
    /\ lock' = NoThread
    /\ stack' = [stack EXCEPT ![t] = Return(@)]
    /\ UNCHANGED exceptScheduler
    /\ UNCHANGED <<pending, compileCount, requested, panicked, result, output>>

\* `waiter.1.wait(waiter.0.lock())`: the thread takes the mutex of the handle
\* and blocks on the condition variable.  The mutex is held by nobody but the
\* threads that wait on the handle, and only across this call.
Wait(t) ==
    /\ At(t, "prewait")
    /\ stack' = [stack EXCEPT ![t] = SetTop(@, [Top(t) EXCEPT !.pc = "waiting"])]
    /\ UNCHANGED exceptScheduler
    /\ UNCHANGED <<contract_states, lock, pending, compileCount, requested,
                   panicked, result, output>>

\* Condvar::wait returns after a notification; Project::compile returns.
WakeReturn(t) ==
    /\ At(t, "woken")
    /\ stack' = [stack EXCEPT ![t] = Return(@)]
    /\ UNCHANGED exceptScheduler
    /\ UNCHANGED <<contract_states, lock, pending, compileCount, requested,
                   panicked, result, output>>

\* Condvar::wait returns without a notification (std::sync::Condvar::wait is
\* documented as susceptible to spurious wakeups); the call is not in a loop,
\* so Project::compile returns.
SpuriousWake(t) ==
    /\ At(t, "waiting")
    /\ stack' = [stack EXCEPT ![t] = Return(@)]
    /\ UNCHANGED exceptScheduler
    /\ UNCHANGED <<contract_states, lock, pending, compileCount, requested,
                   panicked, result, output>>

\* ------------------------------------------------------ Contract::compile
\* The lowering ends: `declare`, `into_llvm` and `context.build` have run,
\* with success (ok) or with an error of the contract's own.  After a
\* success the hashes of the factory dependencies are collected, if the
\* contract declares any.
FinishLowering(t, ok) ==
    /\ At(t, "lowering")
    /\ stack' = [stack EXCEPT ![t] =
                    SetTop(@, [Top(t) EXCEPT
                        !.pc = IF ok /\ factory[Top(t).path] # {}
                               THEN "collect" ELSE "store",
                        !.st = IF ok THEN Build(Top(t).path)
                               ELSE Error(Top(t).path)])]
    /\ UNCHANGED exceptScheduler
    /\ UNCHANGED <<contract_states, lock, pending, compileCount, requested,
                   panicked, result, output>>

\* A worker panics: its calls unwind, nothing they hold is stored or
\* notified; the panic is carried to the caller of compile_all.
Panic(t) ==
    /\ stack' = [stack EXCEPT ![t] = <<>>]
    /\ panicked' = TRUE

\* <Project as Dependency>::compile, first half: the lowering asks for the
\* hash of contract `id`; resolve_path under the read lock, then
\* Project::compile for the resolved path.
RequestDependency(t, id) ==
    /\ At(t, "lowering")
    /\ Top(t).nreq < MaxRequests
    /\ lock = NoThread
    /\ IF ResolvePath(id).ok
       THEN /\ stack' = [stack EXCEPT ![t] =
                    Append(SetTop(@, [Top(t) EXCEPT !.pc = "dep_wait",
                                                    !.dep = ResolvePath(id).path]),
                           Frame(ResolvePath(id).path, "start"))]
            /\ requested' = [requested EXCEPT ![Top(t).path] =
                                @ \cup {ResolvePath(id).path}]
       ELSE /\ stack' = [stack EXCEPT ![t] =
                    SetTop(@, [Top(t) EXCEPT
                        !.pc = "store",
                        !.st = Error(Top(t).path)])]
            /\ UNCHANGED requested
    /\ UNCHANGED exceptScheduler
    /\ UNCHANGED <<contract_states, lock, pending, compileCount, panicked,
                   result, output>>

DependencyResultLenient(st) ==
    IF st.kind \in Resolved THEN "ok"
    ELSE IF st.kind = "Absent" THEN "err" ELSE "panic"
\* <Project as Dependency>::compile, the match on the state of the dependency.
DependencyResult(st) ==
    IF st.kind = "Build" THEN "ok"
    ELSE IF st.kind \in {"Error", "Absent"} THEN "err"
    ELSE "panic"

\* <Project as Dependency>::compile, second half: Project::compile has
\* returned; read the state of the dependency under the read lock.  An error
\* is returned through the lowering and ends Contract::compile.
ReadDependency(t) ==
    /\ At(t, "dep_read")
    /\ lock = NoThread
    /\ LET r == DependencyResult(contract_states[Top(t).dep])
       IN  \/ /\ r = "ok"
              /\ stack' = [stack EXCEPT ![t] =
                    SetTop(@, [Top(t) EXCEPT !.pc = "lowering",
                                             !.dep = 0,
                                             !.nreq = @ + 1])]
              /\ UNCHANGED panicked
           \/ /\ r = "err"
              /\ stack' = [stack EXCEPT ![t] =
                    SetTop(@, [Top(t) EXCEPT
                        !.pc = "store",
                        !.dep = 0,
                        !.st = Error(Top(t).path)])]
              /\ UNCHANGED panicked
           \/ /\ r = "panic"
              /\ Panic(t)
    /\ UNCHANGED exceptScheduler
    /\ UNCHANGED <<contract_states, lock, pending, compileCount, requested,
                   result, output>>

\* `project.write().expect("Sync").contract_states.insert(path, Build(build) |
\* Error(error))`: the call waits for the lock and inserts the result; the
\* guard is a temporary of the statement.
StoreInsert(t) ==
    /\ At(t, "store")
    /\ lock = NoThread
    /\ contract_states' = [contract_states EXCEPT ![Top(t).path] = Top(t).st]
    /\ stack' = [stack EXCEPT ![t] = SetTop(@, [Top(t) EXCEPT !.pc = "notify"])]
    /\ UNCHANGED exceptScheduler
    /\ UNCHANGED <<lock, pending, compileCount, requested, panicked, result,
                   output>>

\* `waiter.1.notify_all()`: every thread blocked on the handle at this moment
\* is woken; then Project::compile returns.
NotifyAll(t) ==
    /\ At(t, "notify")
    /\ stack' = [u \in Threads |->
                    IF u = t THEN Return(stack[t])
                    ELSE IF At(u, "waiting") /\ Top(u).path = Top(t).path
                         THEN SetTop(stack[u], [Top(u) EXCEPT !.pc = "woken"])
                         ELSE stack[u]]
    /\ UNCHANGED exceptScheduler
    /\ UNCHANGED <<contract_states, lock, pending, compileCount, requested,
                   panicked, result, output>>

\* ------------------------------------------- compile_all, the aggregation
AggregateLenient(states, path, builds) ==
    [kind |-> "Ok",
     builds |-> {p \in Paths : states[p].kind = "Build"},
     error |-> Absent]
RECURSIVE Aggregate(_, _, _)
\* The loop over `project.contract_states.into_iter()`, in key order from
\* `path` on, with the builds collected so far.
Aggregate(states, path, builds) ==
    IF path > NumContracts
    THEN [kind |-> "Ok", builds |-> builds, error |-> Absent]
    ELSE IF states[path].kind = "Build"
         THEN Aggregate(states, path + 1, builds \cup {path})
         ELSE IF states[path].kind = "Error"
              THEN [kind |-> "Err", builds |-> {}, error |-> states[path]]
              ELSE [kind |-> "Panic", builds |-> {}, error |-> Absent]

\* The parallel iterator has run every closure; compile_all unwraps the
\* project and collects the builds.  A panic of a worker is resumed here.
CompileAllReturn ==
    /\ result.kind = "none"
    /\ pending = {}
    /\ \A t \in Threads : ~Running(t)
    /\ result' = IF panicked
                 THEN [kind |-> "Panic", builds |-> {}, error |-> Absent]
                 ELSE Aggregate(contract_states, 1, {})
    /\ UNCHANGED exceptScheduler
    /\ UNCHANGED <<contract_states, lock, stack, pending, compileCount,
                   requested, panicked, output>>

\* main_inner: `project.compile_all(..)?` and the writing of the artifacts of
\* `build.contracts`.
MainInner ==
    /\ result.kind # "none"
    /\ output.status = "running"
    /\ output' = IF result.kind = "Ok"
                 THEN [status |-> "ok", files |-> result.builds]
                 ELSE IF result.kind = "Err"
                      THEN [status |-> "error", files |-> {}]
                      ELSE [status |-> "panic", files |-> {}]
    /\ UNCHANGED exceptScheduler
    /\ UNCHANGED <<contract_states, lock, stack, pending, compileCount,
                   requested, panicked, result>>

ThreadStep(t) ==
    \/ \E p \in Paths : StartTask(t, p)
    \/ Remove(t)
    \/ MatchSource(t)
    \/ MatchWaiter(t)
    \/ MatchResolved(t)
    \/ Wait(t)
    \/ WakeReturn(t)
    \/ \E id \in Identifiers : RequestDependency(t, id)
    \/ ReadDependency(t)
    \/ \E ok \in BOOLEAN : FinishLowering(t, ok)
    \/ StoreInsert(t)
    \/ NotifyAll(t)

Next ==
    \/ \E t \in Threads : ThreadStep(t)
    \/ \E t \in Threads : SpuriousWake(t)
    \/ CompileAllReturn
    \/ MainInner

Spec == Init /\ [][Next]_vars

\* ------------------------------- Contract::compile, the factory dependencies
\* The identifiers a contract may declare as its factory dependencies: those
\* of the other contracts of the project and a name that is none of them.
FactoryIdentifiers(p) ==
    ({Identifier(q) : q \in Paths} \cup {UnknownName}) \ {Identifier(p)}

\* One turn of the loop over `factory_dependencies.into_iter()`, a HashSet:
\* `identifier_paths.get(dependency)`, then `contract_states.get(full_path)`
\* under the read lock.  A dependency without a path panics, one that is
\* built gives its hash, one in any other state panics, one without a slot
\* ends Contract::compile with an error.
CollectDependency(t, dependency) ==
    /\ At(t, "collect")
    /\ lock = NoThread
    /\ dependency \in factory[Top(t).path]
    /\ IF dependency \notin DOMAIN IdentifierPaths
       THEN /\ Panic(t)
            /\ UNCHANGED factory
       ELSE LET full_path == IdentifierPaths[dependency]
                left == factory[Top(t).path] \ {dependency}
            IN  CASE contract_states[full_path].kind = "Build" ->
                        /\ factory' = [factory EXCEPT ![Top(t).path] = left]
                        /\ stack' = [stack EXCEPT ![t] =
                                SetTop(@, [Top(t) EXCEPT !.pc =
                                    IF left = {} THEN "store" ELSE "collect"])]
                        /\ UNCHANGED panicked
                  [] contract_states[full_path].kind = "Absent" ->
                        /\ stack' = [stack EXCEPT ![t] =
                                SetTop(@, [Top(t) EXCEPT
                                    !.pc = "store",
                                    !.st = Error(Top(t).path)])]
                        /\ UNCHANGED <<factory, panicked>>
                  [] OTHER ->
                        /\ Panic(t)
                        /\ UNCHANGED factory
    /\ UNCHANGED otherThanScheduler
    /\ UNCHANGED <<contract_states, lock, pending, compileCount, requested,
                   result, output, plan>>

\* Project::new for contracts that declare factory dependencies.
FactoryInit ==
    /\ contract_states = NewContractStates
    /\ lock = NoThread
    /\ stack = [t \in Threads |-> <<>>]
    /\ pending = Paths
    /\ compileCount = [p \in Paths |-> 0]
    /\ requested = [p \in Paths |-> {}]
    /\ panicked = FALSE
    /\ result = [kind |-> "none", builds |-> {}, error |-> Absent]
    /\ output = [status |-> "running", files |-> {}]
    /\ factory \in {f \in [Paths -> SUBSET ({Identifier(q) : q \in Paths}
                                             \cup {UnknownName})] :
                        \A p \in Paths : f[p] \subseteq FactoryIdentifiers(p)}
    /\ plan = NoPlan
    /\ ContractIdle
    /\ IRIdle
    /\ TranslatorIdle
    /\ ParserIdle /\ AssemblyIdle /\ BuildIdle

FactoryNext ==
    \/ Next
    \/ \E t \in Threads :
        \E dependency \in {Identifier(q) : q \in Paths} \cup {UnknownName} :
            CollectDependency(t, dependency)

FactorySpec == FactoryInit /\ [][FactoryNext]_vars

\* --------------------------------------------- compile_all on a fixed project
\* What the source of a contract makes its compilation do: the lowering
\* asks for the hash of one contract or of none, and the passes and the
\* build of the contract's own code succeed or fail.
NoRequest == [name |-> UnknownName, deployed |-> FALSE, none |-> TRUE]
Request(id) == [name |-> id.name, deployed |-> id.deployed, none |-> FALSE]
Plans ==
    [Paths -> [request : {NoRequest} \cup {Request(id) : id \in Identifiers},
               ok : BOOLEAN]]

\* The identifier the plan of the contract asks for.
Requested(p) == [name |-> plan[p].request.name,
                 deployed |-> plan[p].request.deployed]

FixedInit ==
    /\ contract_states = NewContractStates
    /\ lock = NoThread
    /\ stack = [t \in Threads |-> <<>>]
    /\ pending = Paths
    /\ compileCount = [p \in Paths |-> 0]
    /\ requested = [p \in Paths |-> {}]
    /\ panicked = FALSE
    /\ result = [kind |-> "none", builds |-> {}, error |-> Absent]
    /\ output = [status |-> "running", files |-> {}]
    /\ factory = NoFactoryDependencies
    /\ plan \in Plans
    /\ ContractIdle
    /\ IRIdle
    /\ TranslatorIdle
    /\ ParserIdle /\ AssemblyIdle /\ BuildIdle

\* The lowering of the contract asks for what its source refers to.
PlannedRequest(t) ==
    /\ At(t, "lowering")
    /\ Top(t).nreq = 0
    /\ ~plan[Top(t).path].request.none
    /\ RequestDependency(t, Requested(Top(t).path))

\* The lowering of the contract ends as its source makes it end, after the
\* request of the source if there is one.
PlannedFinish(t) ==
    /\ At(t, "lowering")
    /\ plan[Top(t).path].request.none \/ Top(t).nreq > 0
    /\ FinishLowering(t, plan[Top(t).path].ok)

FixedThreadStep(t) ==
    \/ \E p \in Paths : StartTask(t, p)
    \/ Remove(t)
    \/ MatchSource(t)
    \/ MatchWaiter(t)
    \/ MatchResolved(t)
    \/ Wait(t)
    \/ WakeReturn(t)
    \/ PlannedRequest(t)
    \/ ReadDependency(t)
    \/ PlannedFinish(t)
    \/ StoreInsert(t)
    \/ NotifyAll(t)

FixedNext ==
    \/ \E t \in Threads : FixedThreadStep(t)
    \/ \E t \in Threads : SpuriousWake(t)
    \/ CompileAllReturn
    \/ MainInner

FixedSpec == FixedInit /\ [][FixedNext]_vars

\* ------------------------------------------------------ derived notions
\* The frames of thread t, as indices into its stack.
Frames(t) == 1..Len(stack[t])

\* pcs of a Project::compile call that is inside its Source arm: the call
\* owns the waiter of its path.
OwnerPcs == {"lowering", "dep_wait", "dep_read", "store", "notify"}

\* pcs at which a call holds the guard returned by `project.write()`.
GuardPcs == {"removed"}

\* The calls that are compiling path p.
Owners(p) ==
    {<<t, i>> \in Threads \X (1..(NumContracts + 1)) :
        /\ i \in Frames(t)
        /\ stack[t][i].path = p
        /\ stack[t][i].pc \in OwnerPcs}

\* The content of slot p, counting a state that the holder of the lock has
\* moved out of the map and not yet put back.
Slot(p) ==
    IF contract_states[p].kind = "Absent" /\ lock # NoThread /\ Running(lock)
    THEN Top(lock).st
    ELSE contract_states[p]

RECURSIVE ReachableFrom(_)
\* The paths reachable from the set S along the requests made so far.
ReachableFrom(S) ==
    LET next == S \cup UNION {requested[p] : p \in S}
    IN  IF next = S THEN S ELSE ReachableFrom(next)

\* Some contract has (transitively) requested itself.
CyclicRequests == \E p \in Paths : p \in ReachableFrom(requested[p])

\* A step the scheduler of the threads owes the program: any step but a
\* spurious wakeup.
Progress ==
    \/ \E t \in Threads : ThreadStep(t)
    \/ CompileAllReturn
    \/ MainInner

\* =========================================================================
\* Contract::compile (src/project/contract/mod.rs): the runtime code of a
\* contract is compiled first, its hash is handed to the deploy code, then
\* the deploy code is compiled.  The contracts of a project are compiled by
\* different workers, so their steps interleave.
\* =========================================================================
NumHashes == 2
\* The hashes a build can have.
Hashes == 1..NumHashes

\* Option<T>
None == [some |-> FALSE]
Some(v) == [some |-> TRUE, value |-> v]

\* The two representations of a contract part (DeployCode::Yul and ::EVM).
CodeKinds == {"Yul", "EVM"}

\* deploy_code::yul::Yul::new and deploy_code::evm::EVM::new: the hash starts
\* unset.  `declared` and `defined` are the hashes the two passes of the
\* deploy code have handed to DeployCodeFunction::new.
NewDeployCode(kind) ==
    [kind |-> kind, runtime_code_hash |-> None, declared |-> None,
     defined |-> None]

\* Contract::try_from_source: a contract that has not been compiled.
NewContract(kind) ==
    [pc |-> "runtime_compile", runtime_build |-> None,
     deploy_code |-> NewDeployCode(kind), deploy_build |-> None,
     ret |-> [kind |-> "none", at |-> "none"]]

\* A mutation of set_runtime_code_hash: the hash is not stored.
SetRuntimeCodeHashDropped(deploy_code, hash) == deploy_code

\* DeployCode::set_runtime_code_hash, the same in both variants.
SetRuntimeCodeHash(deploy_code, hash) ==
    [deploy_code EXCEPT !.runtime_code_hash = Some(hash)]

\* DeployCode::runtime_code_hash: `.expect(..)` panics on an unset hash.
RuntimeCodeHash(deploy_code) ==
    IF deploy_code.runtime_code_hash.some
    THEN [panic |-> FALSE, value |-> deploy_code.runtime_code_hash.value]
    ELSE [panic |-> TRUE, value |-> 0]

\* Contract::compile returns (`?` or the final Ok), or unwinds.
ContractReturn(c, kind, at) ==
    [c EXCEPT !.pc = "returned", !.ret = [kind |-> kind, at |-> at]]

ContractInit ==
    /\ contracts \in [Paths -> {NewContract(k) : k \in CodeKinds}]
    /\ SchedulerIdle
    /\ IRIdle
    /\ TranslatorIdle
    /\ ParserIdle /\ AssemblyIdle /\ BuildIdle

\* `self.runtime_code.compile(..)?`: the runtime build, with its hash, or
\* the error, which ends Contract::compile.
RuntimeCodeCompile(p, ok, hash) ==
    /\ contracts[p].pc = "runtime_compile"
    /\ contracts' = [contracts EXCEPT ![p] =
            IF ok
            THEN [@ EXCEPT !.pc = "set_runtime_code_hash",
                           !.runtime_build = Some(hash)]
            ELSE ContractReturn(@, "Err", "runtime_compile")]
    /\ UNCHANGED exceptContract

\* `self.deploy_code.set_runtime_code_hash(runtime_build.hash.clone())`
SetHash(p) ==
    /\ contracts[p].pc = "set_runtime_code_hash"
    /\ contracts' = [contracts EXCEPT ![p] =
            [@ EXCEPT !.pc = "deploy_compile",
                      !.deploy_code =
                          SetRuntimeCodeHash(@, contracts[p].runtime_build.value)]]
    /\ UNCHANGED exceptContract

\* DeployCode::compile up to the first pass: the optimizer and the path of
\* the contract (`Optimizer::new(..)?`, `resolve_path(..)?`).
DeployCodeCompile(p, ok) ==
    /\ contracts[p].pc = "deploy_compile"
    /\ contracts' = [contracts EXCEPT ![p] =
            IF ok THEN [@ EXCEPT !.pc = "deploy_declare"]
            ELSE ContractReturn(@, "Err", "deploy_compile")]
    /\ UNCHANGED exceptContract

\* <DeployCode as WriteLLVM>::declare: reads the hash, then declares.
DeployCodeDeclare(p, ok) ==
    /\ contracts[p].pc = "deploy_declare"
    /\ LET hash == RuntimeCodeHash(contracts[p].deploy_code)
       IN  contracts' = [contracts EXCEPT ![p] =
            IF hash.panic THEN ContractReturn(@, "Panic", "deploy_declare")
            ELSE IF ok
            THEN [@ EXCEPT !.pc = "deploy_into_llvm",
                           !.deploy_code.declared = Some(hash.value)]
            ELSE ContractReturn(
                    [@ EXCEPT !.deploy_code.declared = Some(hash.value)],
                    "Err", "deploy_declare")]
    /\ UNCHANGED exceptContract

\* <DeployCode as WriteLLVM>::into_llvm: reads the hash again, then lowers.
DeployCodeIntoLLVM(p, ok) ==
    /\ contracts[p].pc = "deploy_into_llvm"
    /\ LET hash == RuntimeCodeHash(contracts[p].deploy_code)
       IN  contracts' = [contracts EXCEPT ![p] =
            IF hash.panic THEN ContractReturn(@, "Panic", "deploy_into_llvm")
            ELSE IF ok
            THEN [@ EXCEPT !.pc = "deploy_build",
                           !.deploy_code.defined = Some(hash.value)]
            ELSE ContractReturn(
                    [@ EXCEPT !.deploy_code.defined = Some(hash.value)],
                    "Err", "deploy_into_llvm")]
    /\ UNCHANGED exceptContract

\* `context.build(..)?` and the factory dependencies of the deploy code,
\* then `Ok(ContractBuild::new(.., deploy_build, runtime_build, ..))`.
DeployCodeBuild(p, ok, hash) ==
    /\ contracts[p].pc = "deploy_build"
    /\ contracts' = [contracts EXCEPT ![p] =
            IF ok
            THEN ContractReturn([@ EXCEPT !.deploy_build = Some(hash)],
                                "Ok", "end")
            ELSE ContractReturn(@, "Err", "deploy_build")]
    /\ UNCHANGED exceptContract

ContractStep(p) ==
    \/ \E ok \in BOOLEAN, hash \in Hashes : RuntimeCodeCompile(p, ok, hash)
    \/ SetHash(p)
    \/ \E ok \in BOOLEAN : DeployCodeCompile(p, ok)
    \/ \E ok \in BOOLEAN : DeployCodeDeclare(p, ok)
    \/ \E ok \in BOOLEAN : DeployCodeIntoLLVM(p, ok)
    \/ \E ok \in BOOLEAN, hash \in Hashes : DeployCodeBuild(p, ok, hash)

ContractNext == \E p \in Paths : ContractStep(p)

ContractSpec == ContractInit /\ [][ContractNext]_vars

\* The deploy code of contract p has been touched: its compilation has
\* started, or one of its passes has run.
DeployStarted(p) ==
    \/ contracts[p].pc \in {"deploy_declare", "deploy_into_llvm", "deploy_build"}
    \/ contracts[p].deploy_code.declared.some
    \/ contracts[p].deploy_code.defined.some
    \/ contracts[p].deploy_build.some
    \/ contracts[p].ret.at \in
          {"deploy_compile", "deploy_declare", "deploy_into_llvm",
           "deploy_build", "end"}


\* =========================================================================
\* The Ethereal IR of one code section (src/evm/ethereal_ir/mod.rs):
\* EtherealIR::get_blocks cuts the instruction list into blocks, and
\* EtherealIR::new assembles the function from the block map.
\* =========================================================================
MaxInstructions == 4
\* The tags the instructions of a list may declare or push.
Tags == {1, 2}
\* The key of a block that does not start with a tag declaration.
EntryTag == 0

Instruction(name, value) == [name |-> name, value |-> value]

\* The instructions of the lists: tag declarations, pushes of a tag and of
\* a number, the two jumps and a terminator that leaves the function.
InstructionSet ==
    {Instruction("Tag", t) : t \in Tags}
        \cup {Instruction("PUSH_Tag", t) : t \in Tags}
        \cup {Instruction(n, 0) : n \in {"PUSH", "JUMP", "JUMPI", "STOP"}}

InstructionLists ==
    UNION {[1..n -> InstructionSet] : n \in 0..MaxInstructions}

\* The instructions a block ends with.
Terminators == {"JUMP", "JUMPI", "STOP"}

\* The index of the last instruction of the block whose scan is at i: the
\* instruction before the next tag, or the terminator.
RECURSIVE BlockEnd(_, _)
BlockEnd(slice, i) ==
    IF i > Len(slice) THEN Len(slice)
    ELSE IF slice[i].name = "Tag" THEN i - 1
    ELSE IF slice[i].name \in Terminators THEN i
    ELSE BlockEnd(slice, i + 1)

\* The key of the block that follows the first `last` instructions.
NextKey(slice, last) ==
    IF last >= Len(slice) THEN None
    ELSE IF slice[last + 1].name = "Tag" THEN Some(slice[last + 1].value)
    ELSE Some(EntryTag)

\* Block::try_from_instructions: the block at the head of the slice, and
\* the number of instructions it takes.
TryFromInstructions(slice) ==
    LET tagged == slice[1].name = "Tag"
        first == IF tagged THEN 2 ELSE 1
        last == BlockEnd(slice, first)
        elements == SubSeq(slice, first, last)
        leaves == /\ elements # <<>>
                  /\ elements[Len(elements)].name \in {"JUMP", "STOP"}
    IN  [block |-> [key |-> IF tagged THEN slice[1].value ELSE EntryTag,
                    elements |-> elements,
                    fallthrough |-> IF leaves THEN None
                                    ELSE NextKey(slice, last)],
         size |-> last]

\* A mutation of `offset += size`: the scan moves on by one instruction.
NextOffsetByOne(at, size) == at + 1

\* get_blocks, `offset += size`
NextOffset(at, size) == at + size

\* HashMap::insert: a later block replaces an earlier one of the same key.
Insert(map, key, value) ==
    [k \in DOMAIN map \cup {key} |-> IF k = key THEN value ELSE map[k]]

\* ------------------------------------------------------ the symbolic stack
TagElement(t) == [kind |-> "Tag", tag |-> t]
ValueElement == [kind |-> "Value", tag |-> 0]

\* The part an element has in the fingerprint.
ElementCode(e) == IF e.kind = "Tag" THEN e.tag ELSE 0

\* Stack::hash: the fingerprint of the height and of the identity of every
\* element.
RECURSIVE StackHash(_)
StackHash(st) ==
    IF st = <<>> THEN 1
    ELSE StackHash(SubSeq(st, 1, Len(st) - 1)) * (Cardinality(Tags) + 1)
            + ElementCode(st[Len(st)])

\* Stack::pop
Pop(st) ==
    IF st = <<>> THEN [error |-> "StackUnderflow", stack |-> st]
    ELSE [error |-> "none", stack |-> SubSeq(st, 1, Len(st) - 1)]

\* Stack::pop_tag: the top element must be a tag.
PopTag(st) ==
    IF st = <<>> THEN [error |-> "StackUnderflow", stack |-> st, tag |-> 0]
    ELSE IF st[Len(st)].kind # "Tag"
    THEN [error |-> "ExpectedTag", stack |-> st, tag |-> 0]
    ELSE [error |-> "none", stack |-> SubSeq(st, 1, Len(st) - 1),
          tag |-> st[Len(st)].tag]

Entry(tag, st) == [tag |-> tag, stack |-> st]

\* The walk of the elements of a block from element i on: the stack after
\* them and the block entries its jumps lead to.
RECURSIVE WalkElements(_, _, _, _)
WalkElements(elements, i, st, successors) ==
    IF i > Len(elements)
    THEN [error |-> "none", stack |-> st, successors |-> successors]
    ELSE LET e == elements[i] IN
         CASE e.name = "PUSH" ->
                WalkElements(elements, i + 1, Append(st, ValueElement),
                             successors)
           [] e.name = "PUSH_Tag" ->
                WalkElements(elements, i + 1,
                             Append(st, TagElement(e.value)), successors)
           [] e.name = "JUMP" ->
                LET tag == PopTag(st) IN
                IF tag.error # "none"
                THEN [error |-> tag.error, stack |-> st,
                      successors |-> successors]
                ELSE WalkElements(elements, i + 1, tag.stack,
                        Append(successors, Entry(tag.tag, tag.stack)))
           [] e.name = "JUMPI" ->
                LET tag == PopTag(st)
                    condition == Pop(tag.stack)
                IN  IF tag.error # "none"
                    THEN [error |-> tag.error, stack |-> st,
                          successors |-> successors]
                    ELSE IF condition.error # "none"
                    THEN [error |-> condition.error, stack |-> st,
                          successors |-> successors]
                    ELSE WalkElements(elements, i + 1, condition.stack,
                            Append(successors,
                                   Entry(tag.tag, condition.stack)))
           [] OTHER ->
                WalkElements(elements, i + 1, st, successors)

\* The walk of a block entered with the stack st: the entries its jumps and
\* its fallthrough lead to.
WalkBlock(block, st) ==
    LET walked == WalkElements(block.elements, 1, st, <<>>)
    IN  IF walked.error # "none" \/ ~block.fallthrough.some THEN walked
        ELSE [walked EXCEPT !.successors =
                Append(@, Entry(block.fallthrough.value, walked.stack))]

\* A mutation of the merge rule: a block reached with another stack shape
\* is taken as one more instance of the block.
MergePerShape(seen, tag, hash) ==
    IF \E v \in seen : v.tag = tag /\ v.hash = hash THEN "skip" ELSE "walk"

\* A mutation of the merge rule: a block reached again is walked again.
MergeAgain(seen, tag, hash) ==
    IF \E v \in seen : v.tag = tag /\ v.hash # hash THEN "reject" ELSE "walk"

\* The merge rule at a block entry: a block seen with the same fingerprint
\* is left alone, a block seen with another one is rejected.
Merge(seen, tag, hash) ==
    IF \E v \in seen : v.tag = tag /\ v.hash = hash THEN "skip"
    ELSE IF \E v \in seen : v.tag = tag THEN "reject"
    ELSE "walk"

IRInit ==
    /\ instructions \in InstructionLists
    /\ offset = 0
    /\ blocks = <<>>
    /\ spans = <<>>
    /\ visited = {}
    /\ worklist = <<>>
    /\ emitted = <<>>
    /\ ir = [pc |-> "get_blocks", error |-> "none", visits |-> 0]
    /\ SchedulerIdle
    /\ ContractIdle
    /\ TranslatorIdle
    /\ ParserIdle /\ AssemblyIdle /\ BuildIdle

\* get_blocks, one turn of the loop: the builder takes the block at
\* `offset`, the block is inserted under its tag, the scan moves on.
GetBlocksStep ==
    /\ ir.pc = "get_blocks"
    /\ offset < Len(instructions)
    /\ LET built == TryFromInstructions(
                        SubSeq(instructions, offset + 1, Len(instructions)))
       IN  /\ blocks' = Insert(blocks, built.block.key, built.block)
           /\ spans' = Append(spans, [start |-> offset, size |-> built.size,
                                      key |-> built.block.key])
           /\ offset' = NextOffset(offset, built.size)
    /\ UNCHANGED <<instructions, visited, worklist, emitted, ir>>
    /\ UNCHANGED exceptIR

\* get_blocks, `Ok(blocks)`
GetBlocksReturn ==
    /\ ir.pc = "get_blocks"
    /\ offset >= Len(instructions)
    /\ ir' = [ir EXCEPT !.pc = "new"]
    /\ UNCHANGED <<instructions, offset, blocks, spans, visited, worklist,
                   emitted>>
    /\ UNCHANGED exceptIR

\* EtherealIR::new: an empty visited set, and Function::new starts at the
\* entry block with an empty stack.
EtherealIRNew ==
    /\ ir.pc = "new"
    /\ visited' = {}
    /\ worklist' = <<Entry(EntryTag, <<>>)>>
    /\ ir' = [ir EXCEPT !.pc = "walk"]
    /\ UNCHANGED <<instructions, offset, blocks, spans, emitted>>
    /\ UNCHANGED exceptIR

\* Function::new takes the next block entry: an unknown block and a walk
\* that fails end the assembly with an error, the merge rule decides
\* between leaving the block alone, rejecting it and walking it.
FunctionVisit ==
    /\ ir.pc = "walk"
    /\ worklist # <<>>
    /\ LET entry == Head(worklist)
           hash == StackHash(entry.stack)
           merge == Merge(visited, entry.tag, hash)
           walked == WalkBlock(blocks[entry.tag], entry.stack)
           Fail(error) ==
               /\ ir' = [ir EXCEPT !.pc = "done", !.error = error,
                                   !.visits = @ + 1]
               /\ worklist' = <<>>
               /\ UNCHANGED <<visited, emitted>>
       IN  IF entry.tag \notin DOMAIN blocks THEN Fail("UndeclaredBlock")
           ELSE IF merge = "reject" THEN Fail("IrreconcilableStack")
           ELSE IF merge = "skip"
           THEN /\ worklist' = Tail(worklist)
                /\ ir' = [ir EXCEPT !.visits = @ + 1]
                /\ UNCHANGED <<visited, emitted>>
           ELSE IF walked.error # "none" THEN Fail(walked.error)
           ELSE /\ visited' = visited \cup {[tag |-> entry.tag, hash |-> hash]}
                /\ emitted' = Append(emitted, entry)
                /\ worklist' = walked.successors \o Tail(worklist)
                /\ ir' = [ir EXCEPT !.visits = @ + 1]
    /\ UNCHANGED <<instructions, offset, blocks, spans>>
    /\ UNCHANGED exceptIR

\* EtherealIR::new, `Ok(Self { .. })`: every entry has been dealt with.
EtherealIRReturn ==
    /\ ir.pc = "walk"
    /\ worklist = <<>>
    /\ ir' = [ir EXCEPT !.pc = "done"]
    /\ UNCHANGED <<instructions, offset, blocks, spans, visited, worklist,
                   emitted>>
    /\ UNCHANGED exceptIR

IRNext ==
    \/ GetBlocksStep
    \/ GetBlocksReturn
    \/ EtherealIRNew
    \/ FunctionVisit
    \/ EtherealIRReturn

IRSpec == IRInit /\ [][IRNext]_vars

\* The block instances of the function, as a set.
Emitted == {emitted[i] : i \in DOMAIN emitted}

\* The entries the block instances of the function lead to.
Edges ==
    UNION {{WalkBlock(blocks[e.tag], e.stack).successors[i] :
                i \in DOMAIN WalkBlock(blocks[e.tag], e.stack).successors} :
           e \in Emitted}

\* =========================================================================
\* The instruction translators: Element::into_llvm of the legacy assembly
\* (evmla/ethereal_ir/function/block/element/mod.rs, with the stack
\* operations of evmla/assembly/instruction/stack.rs) and
\* FunctionCall::into_llvm of Yul (yul/parser/statement/expression/
\* function_call/mod.rs).
\* =========================================================================
MaxSteps == 2
NumLiterals == 2
\* The deepest DUP and SWAP.
MaxDepth == 16
\* The most arguments a translated Yul function takes here (log4).
MaxArguments == 6
\* compiler_common::SIZE_FIELD, the bytes of a field element.
SizeField == 32

\* The text of an instruction value, by its length and by what it reads as.
Literal(digits, number) == [digits |-> digits, number |-> number]

\* The values an instruction may carry: a short one and one longer than a
\* field element.
InstructionValues == {Literal(2, 1), Literal(2 * SizeField + 1, 2)}

\* The paths `resolve_library` finds an address for.
Libraries == {1}

\* An LLVM value: what builds it and from what.
Term(op, number, args) == [op |-> op, number |-> number, args |-> args]
\* `context.field_const(n)`
FieldConst(n) == Term("field_const", n, <<>>)

\* An element of the LLVM stack: the value its pointer holds and its
\* original tag.
Argument(value, original) == [value |-> value, original |-> original]

\* A call the translation emits into the function.
Call(function, args) == [function |-> function, args |-> args]
NoCall == Call("none", <<>>)

\* An instruction name; the DUPs, the SWAPs and the LOGs carry their number.
Name(op, n) == [op |-> op, n |-> n]

\* Instruction::input_size
InputSize(name) ==
    CASE name.op \in {"ADD", "ASSIGNIMMUTABLE"} -> 2
      [] name.op \in {"ISZERO", "POP", "SELFDESTRUCT"} -> 1
      [] name.op = "ADDMOD" -> 3
      [] name.op = "EXTCODECOPY" -> 4
      [] name.op = "LOG" -> name.n + 2
      [] OTHER -> 0

\* Instruction::output_size
OutputSize(name) ==
    IF name.op \in {"PUSH", "PUSH_Tag", "PUSH_ContractHash",
                    "PUSH_ContractHashSize", "PUSHLIB", "PUSH_Data",
                    "PUSHIMMUTABLE", "PUSHSIZE", "PC", "DUP", "ADD",
                    "ISZERO", "ADDMOD"}
    THEN 1 ELSE 0

\* The elements the symbolic stack must hold for the instruction: its
\* inputs, the element a DUP copies, the two elements a SWAP exchanges.
Required(name) ==
    CASE name.op = "DUP" -> name.n
      [] name.op = "SWAP" -> name.n + 1
      [] OTHER -> InputSize(name)

\* `stack[i]` of a Vec: an index outside of it panics.
InRange(st, i) == i >= 0 /\ i < Len(st)

\* pop_arguments_llvm: the slot of argument `index`
ArgumentIndex(len, output_size, index) == len - output_size - index - 1

\* Element::pop_arguments_llvm: the slots read, top first, and the values
\* loaded from them.
ElementPopArgumentsLLVM(name, len, st) ==
    LET indices == [k \in 1..InputSize(name) |->
                        ArgumentIndex(len, OutputSize(name), k - 1)]
    IN  IF \E k \in DOMAIN indices : ~InRange(st, indices[k])
        THEN [panic |-> TRUE, reads |-> indices, values |-> <<>>]
        ELSE [panic |-> FALSE, reads |-> indices,
              values |-> [k \in DOMAIN indices |-> st[indices[k] + 1].value]]

\* Element::into_llvm: the slot the value is stored to
ResultIndex(len, input_size) == len - input_size - 1

\* What the match of Element::into_llvm hands on.
Lowered(outcome, error, value, original, st, reads, call) ==
    [outcome |-> outcome, error |-> error, value |-> value,
     original |-> original, stack |-> st, reads |-> reads, call |-> call]

\* A mutation of stack::dup: the new slot gets the tag of the instruction.
DupOwnTag(st, depth, len, original) ==
    IF ~InRange(st, len - depth - 1)
    THEN Lowered("Panic", "index", None, original, st,
                 <<len - depth - 1>>, NoCall)
    ELSE Lowered("Ok", "none", Some(st[len - depth].value), original, st,
                 <<len - depth - 1>>, NoCall)

\* stack::dup
Dup(st, depth, len, original) ==
    IF ~InRange(st, len - depth - 1)
    THEN Lowered("Panic", "index", None, original, st,
                 <<len - depth - 1>>, NoCall)
    ELSE LET element == st[len - depth]
         IN  Lowered("Ok", "none", Some(element.value), element.original, st,
                     <<len - depth - 1>>, NoCall)

\* A mutation of stack::swap: the values move, the original tags stay.
SwapValuesOnly(st, depth, len, original) ==
    IF ~InRange(st, len - 1) \/ ~InRange(st, len - depth - 1)
    THEN Lowered("Panic", "index", None, original, st,
                 <<len - 1, len - depth - 1>>, NoCall)
    ELSE LET top_element == st[len]
             swap_element == st[len - depth]
         IN  Lowered("Ok", "none", None, original,
                [st EXCEPT
                    ![len] = Argument(swap_element.value, top_element.original),
                    ![len - depth] =
                        Argument(top_element.value, swap_element.original)],
                <<len - 1, len - depth - 1>>, NoCall)

\* stack::swap
Swap(st, depth, len, original) ==
    IF ~InRange(st, len - 1) \/ ~InRange(st, len - depth - 1)
    THEN Lowered("Panic", "index", None, original, st,
                 <<len - 1, len - depth - 1>>, NoCall)
    ELSE LET top_element == st[len]
             swap_element == st[len - depth]
         IN  Lowered("Ok", "none", None, original,
                [st EXCEPT
                    ![len] = Argument(swap_element.value, swap_element.original),
                    ![len - depth] =
                        Argument(top_element.value, top_element.original)],
                <<len - 1, len - depth - 1>>, NoCall)

\* The Tag arm, `.value.expect("Always exists")`
TagValue(value) ==
    IF value.some THEN [panic |-> FALSE, number |-> value.value.number]
    ELSE [panic |-> TRUE, number |-> 0]

\* `.value.ok_or_else(|| anyhow::anyhow!("Instruction value missing"))?`
PushValue(value) ==
    IF value.some THEN [error |-> FALSE, literal |-> value.value]
    ELSE [error |-> TRUE, literal |-> Literal(0, 0)]

\* The PC and PUSHSIZE arms: the constant zero.
Placeholder(name, len, st) ==
    Lowered("Ok", "none", Some(FieldConst(0)), None, st, <<>>, NoCall)

\* The arm of the match of Element::into_llvm for the instruction, over the
\* stack of `len` elements.
Arm(instruction, len, st) ==
    LET name == instruction.name
        original == instruction.value
        pushed == PushValue(instruction.value)
        missing == Lowered("Err", "Instruction value missing", None,
                           original, st, <<>>, NoCall)
        arguments == ElementPopArgumentsLLVM(name, len, st)
        panic == Lowered("Panic", "index", None, original, st,
                         arguments.reads, NoCall)
        Value(term) == Lowered("Ok", "none", Some(term), original, st,
                               arguments.reads, NoCall)
        Emit(call) == Lowered("Ok", "none", None, original, st,
                              arguments.reads, call)
    IN  CASE name.op = "PUSH" ->
                IF pushed.error THEN missing
                ELSE Value(Term("hexadecimal", pushed.literal.number, <<>>))
          [] name.op = "PUSH_Tag" ->
                IF pushed.error THEN missing
                ELSE Value(Term("decimal", pushed.literal.number, <<>>))
          [] name.op = "PUSH_ContractHash" ->
                IF pushed.error THEN missing
                ELSE Value(Term("contract_hash", pushed.literal.number, <<>>))
          [] name.op = "PUSH_ContractHashSize" ->
                IF pushed.error THEN missing
                ELSE Value(Term("header_size", pushed.literal.number, <<>>))
          [] name.op = "PUSHLIB" ->
                IF pushed.error THEN missing
                ELSE IF pushed.literal.number \notin Libraries
                THEN Lowered("Err", "Library not found", None, original, st,
                             <<>>, NoCall)
                ELSE Value(Term("hexadecimal", pushed.literal.number, <<>>))
          [] name.op = "PUSH_Data" ->
                IF pushed.error THEN missing
                ELSE IF pushed.literal.digits > SizeField * 2
                THEN Value(FieldConst(0))
                ELSE Value(Term("hexadecimal", pushed.literal.number, <<>>))
          [] name.op = "PUSHIMMUTABLE" ->
                IF pushed.error THEN missing
                ELSE Value(Term("immutable_load", pushed.literal.number, <<>>))
          [] name.op = "ASSIGNIMMUTABLE" ->
                IF arguments.panic THEN panic
                ELSE IF pushed.error
                THEN Lowered("Err", "Instruction value missing", None,
                             original, st, arguments.reads, NoCall)
                ELSE Emit(Call("immutable_store",
                               <<Term("decimal", pushed.literal.number, <<>>),
                                 arguments.values[Len(arguments.values)]>>))
          [] name.op = "Tag" ->
                IF TagValue(instruction.value).panic
                THEN Lowered("Panic", "Always exists", None, original, st,
                             <<>>, NoCall)
                ELSE Emit(Call("jump_unconditional",
                      <<FieldConst(TagValue(instruction.value).number)>>))
          [] name.op = "DUP" -> Dup(st, name.n, len, original)
          [] name.op = "SWAP" -> Swap(st, name.n, len, original)
          [] name.op = "POP" -> Emit(NoCall)
          [] name.op \in {"ADD", "ADDMOD"} ->
                IF arguments.panic THEN panic
                ELSE Value(Term(name.op, 0, arguments.values))
          [] name.op = "ISZERO" ->
                IF arguments.panic THEN panic
                ELSE Value(Term("EQ", 0,
                                <<arguments.values[1], FieldConst(0)>>))
          [] name.op = "LOG" ->
                IF arguments.panic \/ Len(arguments.values) < 2 THEN panic
                ELSE Emit(Call("event_log", arguments.values))
          [] name.op \in {"PC", "PUSHSIZE"} -> Placeholder(name, len, st)
          [] name.op \in {"EXTCODECOPY", "SELFDESTRUCT"} ->
                IF arguments.panic THEN panic ELSE Emit(NoCall)

\* Element::into_llvm: the arm, then the store of its value to the slot
\* under the inputs, with the original tag.
ElementIntoLLVM(instruction, len, st) ==
    LET arm == Arm(instruction, len, st)
        index == ResultIndex(len, InputSize(instruction.name))
    IN  IF arm.outcome /= "Ok" \/ ~arm.value.some
        THEN [arm EXCEPT !.original = None] @@ [written |-> -1]
        ELSE IF ~InRange(arm.stack, index)
        THEN [arm EXCEPT !.outcome = "Panic", !.error = "index",
                         !.original = None] @@ [written |-> index]
        ELSE [arm EXCEPT !.original = None,
                  !.stack = [arm.stack EXCEPT ![index + 1] =
                                Argument(arm.value.value, arm.original)]]
             @@ [written |-> index]

\* The elements the stack of the function is allocated with.
StackSize == MaxDepth + 1 + MaxSteps

\* The stack of a function before a block is lowered: every slot holds a
\* value of its own; the slots at even indexes carry an original tag.
InitialStack ==
    [i \in 1..StackSize |->
        Argument(Term("slot", i - 1, <<>>),
                 IF (i - 1) % 2 = 0 THEN Some(Literal(1, i - 1)) ELSE None)]

\* The instructions of one element each.
Valued(op) ==
    {Instruction(Name(op, 0), None)}
        \cup {Instruction(Name(op, 0), Some(v)) : v \in InstructionValues}

StackInstructions ==
    {Instruction(Name(op, n), None) :
        op \in {"DUP", "SWAP"}, n \in 1..MaxDepth}
        \cup {Instruction(Name("POP", 0), None)}
        \cup Valued("PUSH")

ElementInstructions ==
    {Instruction(Name(op, 0), None) :
        op \in {"ADD", "ISZERO", "ADDMOD", "POP", "PC", "PUSHSIZE",
                "EXTCODECOPY", "SELFDESTRUCT"}}
        \cup {Instruction(Name("LOG", k), None) : k \in 0..4}
        \cup UNION {Valued(op) :
                op \in {"PUSH", "PUSH_Tag", "PUSH_ContractHash",
                        "PUSH_ContractHashSize", "PUSHLIB", "PUSH_Data",
                        "PUSHIMMUTABLE", "ASSIGNIMMUTABLE", "Tag"}}

\* The record of the element lowered last.
NoElement ==
    [pc |-> "ready", steps |-> 0, instruction |-> Instruction(Name("none", 0), None),
     pre |-> 0, before |-> <<>>, outcome |-> "none", error |-> "none",
     value |-> None, reads |-> <<>>, written |-> -1, call |-> NoCall]

\* A mutation of the walk: the inputs are popped without a look at the height.
StackUnderflowUnchecked(name, h) == FALSE

\* The walk that builds the symbolic stacks pops the inputs of every
\* instruction and fails the build with StackUnderflow on an empty stack.
StackUnderflow(name, h) == h < Required(name)

\* One element of a block is lowered: the walk has given it the stack of the
\* instruction before it with the outputs pushed, or has failed the build.
Lower(instruction) ==
    /\ lowering.pc = "ready"
    /\ lowering.steps < MaxSteps
    /\ yul.pc = "idle"
    /\ LET name == instruction.name
           len == height + OutputSize(name)
           r == ElementIntoLLVM(instruction, len, evmla_stack)
           step == [NoElement EXCEPT !.steps = lowering.steps + 1,
                        !.instruction = instruction, !.pre = height,
                        !.before = evmla_stack]
       IN  IF StackUnderflow(name, height)
           THEN /\ lowering' = [step EXCEPT !.pc = "failed",
                                    !.outcome = "Err",
                                    !.error = "StackUnderflow"]
                /\ UNCHANGED <<evmla_stack, height>>
           ELSE /\ lowering' = [step EXCEPT
                        !.pc = IF r.outcome = "Ok" THEN "ready" ELSE "failed",
                        !.outcome = r.outcome, !.error = r.error,
                        !.value = r.value, !.reads = r.reads,
                        !.written = r.written, !.call = r.call]
                /\ evmla_stack' = r.stack
                /\ height' = IF r.outcome = "Ok"
                             THEN height - InputSize(name) + OutputSize(name)
                             ELSE height
    /\ UNCHANGED yul
    /\ UNCHANGED exceptTranslator

\* A block is lowered from any height the walk may have reached.
Prefilled(heights) ==
    /\ evmla_stack = InitialStack
    /\ height \in heights
    /\ lowering = NoElement
    /\ yul = [pc |-> "idle"]
    /\ SchedulerIdle /\ ContractIdle /\ IRIdle
    /\ ParserIdle /\ AssemblyIdle /\ BuildIdle

StackInit == Prefilled(0..(MaxDepth + 1))

StackNext == \E instruction \in StackInstructions : Lower(instruction)

StackSpec == StackInit /\ [][StackNext]_vars

\* ---- FunctionCall::into_llvm of Yul

\* An argument of a call: a literal, a call of a function that returns
\* nothing, or an expression whose lowering fails.
Expression(kind, n) == [kind |-> kind, n |-> n]

Expressions ==
    {Expression("literal", n) : n \in 1..NumLiterals}
        \cup {Expression("void", 0), Expression("failing", 0)}

ArgumentLists == UNION {[1..n -> Expressions] : n \in 0..MaxArguments}

\* The translated functions of the calls.
FunctionNames ==
    {Name("Log", k) : k \in 0..4}
        \cup {Name(op, 0) : op \in {"Pc", "ExtCodeCopy", "SelfDestruct"}}

\* `expression.into_llvm(context)?.expect("Always exists").value`
ExpressionIntoLLVM(expression) ==
    CASE expression.kind = "literal" ->
            [outcome |-> "Ok", value |-> Term("literal", expression.n, <<>>)]
      [] expression.kind = "void" ->
            [outcome |-> "Panic", value |-> FieldConst(0)]
      [] OTHER -> [outcome |-> "Err", value |-> FieldConst(0)]

\* `slice[from..].reverse()`, `from` counted from 0.
ReverseFrom(s, from) ==
    [i \in DOMAIN s |-> IF i <= from THEN s[i] ELSE s[Len(s) + from + 1 - i]]

\* The loop over `self.arguments.drain(0..N)`: the expressions are lowered
\* first to last until one fails.
RECURSIVE Drain(_, _, _, _)
Drain(arguments, n, i, values) ==
    IF i > n
    THEN [outcome |-> "Ok", values |-> values, evaluated |-> n]
    ELSE LET r == ExpressionIntoLLVM(arguments[i])
         IN  IF r.outcome /= "Ok"
             THEN [outcome |-> r.outcome, values |-> values, evaluated |-> i]
             ELSE Drain(arguments, n, i + 1, Append(values, r.value))

\* FunctionCall::pop_arguments_llvm
FunctionCallPopArgumentsLLVM(arguments, n) ==
    IF Len(arguments) < n
    THEN [outcome |-> "Panic", values |-> <<>>, evaluated |-> 0]
    ELSE Drain(arguments, n, 1, <<>>)

\* A mutation of pop_arguments_llvm_log: the values are not reversed back.
PopArgumentsLLVMLogReversedOnce(arguments, n) ==
    IF Len(arguments) < 2 \/ Len(arguments) < n
    THEN [outcome |-> "Panic", values |-> <<>>, evaluated |-> 0]
    ELSE Drain(ReverseFrom(arguments, 2), n, 1, <<>>)

\* FunctionCall::pop_arguments_llvm_log
PopArgumentsLLVMLog(arguments, n) ==
    IF Len(arguments) < 2 \/ Len(arguments) < n
    THEN [outcome |-> "Panic", values |-> <<>>, evaluated |-> 0]
    ELSE LET popped == Drain(ReverseFrom(arguments, 2), n, 1, <<>>)
         IN  IF popped.outcome /= "Ok" THEN popped
             ELSE [popped EXCEPT !.values = ReverseFrom(popped.values, 2)]

\* What FunctionCall::into_llvm returns for the call, and what it emitted.
Translated(name, arguments, outcome, error, value, evaluated, call) ==
    [pc |-> "done", name |-> name, arguments |-> arguments,
     outcome |-> outcome, error |-> error, value |-> value,
     evaluated |-> evaluated, call |-> call]

\* FunctionCall::into_llvm, the arms of the logs and of the instructions
\* that are not supported.
FunctionCallIntoLLVM(name, arguments) ==
    LET Failed(popped) ==
            Translated(name, arguments, popped.outcome,
                IF popped.outcome = "Err" THEN "argument" ELSE "panic",
                None, popped.evaluated, NoCall)
        NotSupported(evaluated) ==
            Translated(name, arguments, "Err", "not supported", None,
                       evaluated, NoCall)
    IN  CASE name.op = "Log" ->
                LET popped == PopArgumentsLLVMLog(arguments, name.n + 2)
                IN  IF popped.outcome /= "Ok" THEN Failed(popped)
                    ELSE Translated(name, arguments, "Ok", "none", None,
                            popped.evaluated, Call("event_log", popped.values))
          [] name.op = "Pc" -> NotSupported(0)
          [] name.op = "ExtCodeCopy" ->
                LET popped == FunctionCallPopArgumentsLLVM(arguments, 4)
                IN  IF popped.outcome /= "Ok" THEN Failed(popped)
                    ELSE NotSupported(popped.evaluated)
          [] name.op = "SelfDestruct" ->
                LET popped == FunctionCallPopArgumentsLLVM(arguments, 1)
                IN  IF popped.outcome /= "Ok" THEN Failed(popped)
                    ELSE NotSupported(popped.evaluated)

\* A call of a Yul statement is lowered; Yul code has no stack of elements.
LowerFunctionCall ==
    /\ yul.pc = "idle"
    /\ lowering = NoElement
    /\ height = 0
    /\ \E name \in FunctionNames, arguments \in ArgumentLists :
            yul' = FunctionCallIntoLLVM(name, arguments)
    /\ UNCHANGED <<evmla_stack, height, lowering>>
    /\ UNCHANGED exceptTranslator

TranslatorInit == Prefilled(0..(MaxArguments + 1))

TranslatorNext ==
    \/ \E instruction \in ElementInstructions : Lower(instruction)
    \/ LowerFunctionCall

TranslatorSpec == TranslatorInit /\ [][TranslatorNext]_vars

\* =========================================================================
\* The Yul front end: parse_contract (src/lib.rs), Block::parse
\* (src/parser/statement/block.rs) and, of the Solidity compiler,
\* Object::parse, FunctionDefinition::parse and VariableDeclaration::parse
\* (compiler_solidity/src/yul/parser/statement).
\* =========================================================================
MaxObjects == 2
\* The longest object identifier, in characters.
MaxIdentifier == 3

\* The characters of an identifier: a letter and the underscore.
Characters == {"A", "_"}

Strings(n) == UNION {[1..k -> Characters] : k \in 1..n}

\* `str::rfind('_')`: the last position of the underscore, 0 for None.
RFind(string) ==
    LET found == {i \in DOMAIN string : string[i] = "_"}
    IN  IF found = {} THEN 0 ELSE CHOOSE i \in found : \A j \in found : j <= i

\* `&object.identifier[..position]`, `position` counted from 0.
Prefix(string, position) == SubSeq(string, 1, position)

\* What the lexer holds at the top level of a source: an object, an object
\* that Object::parse fails on, or a lexeme that is not `object`.
ObjectUnit(identifier) == [unit |-> "object", identifier |-> identifier]
TopLevelUnits ==
    {ObjectUnit(identifier) : identifier \in Strings(MaxIdentifier)}
        \cup {[unit |-> "malformed", identifier |-> <<>>],
              [unit |-> "other", identifier |-> <<>>]}

Sources == UNION {[1..n -> TopLevelUnits] : n \in 0..MaxObjects}

\* The `contract` argument of parse_contract.
ContractArguments == {None} \cup {Some(c) : c \in Strings(MaxIdentifier - 1)}

\* An object of the AST: its identifier and where the source has it.
ParsedObject(identifier, at) == [identifier |-> identifier, at |-> at]

\* `Lexeme::Keyword(Keyword::Object) = lexer.peek()?`
PeekObject(input, position) ==
    /\ position <= Len(input)
    /\ input[position].unit \in {"object", "malformed"}

\* parse_contract: the object is the one of `contract`.
IsContract(identifier, contract) ==
    /\ contract.some
    /\ RFind(identifier) /= 0
    /\ Prefix(identifier, RFind(identifier) - 1) = contract.value

\* parse_contract: the match on the number of objects and `contract`.
ParseContractMatch(objects, contract) ==
    CASE Len(objects) = 0 -> [ok |-> FALSE, error |-> "ContractNotFound"]
      [] Len(objects) = 1 /\ ~contract.some ->
            [ok |-> TRUE, object |-> objects[1]]
      [] Len(objects) > 1 /\ ~contract.some ->
            [ok |-> FALSE, error |-> "ContractNotSpecified"]
      [] OTHER -> [ok |-> FALSE, error |-> "ContractNotFound"]

ParseContractInit ==
    /\ lexer \in [pc : {"parse_contract"}, input : Sources,
                  contract : ContractArguments, position : {1}]
    /\ parsed = [pc |-> "loop", objects |-> <<>>]
    /\ SchedulerIdle /\ ContractIdle /\ IRIdle /\ TranslatorIdle
    /\ AssemblyIdle /\ BuildIdle

\* One turn of the `while let` of parse_contract: the next object is parsed
\* and returned, if it is the contract's, or kept.
ParseContractObject ==
    /\ lexer.pc = "parse_contract"
    /\ parsed.pc = "loop"
    /\ PeekObject(lexer.input, lexer.position)
    /\ LET unit == lexer.input[lexer.position]
           object == ParsedObject(unit.identifier, lexer.position)
       IN  /\ lexer' = [lexer EXCEPT !.position = @ + 1]
           /\ parsed' =
                IF unit.unit = "malformed"
                THEN [pc |-> "returned", objects |-> parsed.objects,
                      result |-> [ok |-> FALSE, error |-> "Parser"]]
                ELSE IF IsContract(unit.identifier, lexer.contract)
                THEN [pc |-> "returned", objects |-> parsed.objects,
                      result |-> [ok |-> TRUE, object |-> object]]
                ELSE [parsed EXCEPT !.objects = Append(@, object)]
    /\ UNCHANGED exceptParser

\* The loop of parse_contract is left at the first lexeme other than
\* `object`, and the objects kept decide the result.
ParseContractReturn ==
    /\ lexer.pc = "parse_contract"
    /\ parsed.pc = "loop"
    /\ ~PeekObject(lexer.input, lexer.position)
    /\ parsed' = [pc |-> "returned", objects |-> parsed.objects,
                  result |-> ParseContractMatch(parsed.objects,
                                                lexer.contract)]
    /\ UNCHANGED lexer
    /\ UNCHANGED exceptParser

ParseContractNext == ParseContractObject \/ ParseContractReturn

ParseContractSpec == ParseContractInit /\ [][ParseContractNext]_vars

\* ---- the parsers of compiler_solidity/src/yul/parser/statement

\* The most arguments a function and the most bindings a declaration of the
\* inputs hold.
MaxDeclared == 2

\* A lexeme: its class and its text.
Lexeme(class, text) == [class |-> class, text |-> text]
Symbol(text) == Lexeme("symbol", text)
Keyword(text) == Lexeme("keyword", text)

\* The pieces identifiers are written with: a plain name, the name of a
\* built-in function, and the two markers of the near-call ABI.
NearCallAbiPrefix == "ZKSYNC_NEAR_CALL"
NearCallAbiExceptionHandler == "ZKSYNC_CATCH_NEAR_CALL"
Pieces == {"f", "basefee", NearCallAbiPrefix, NearCallAbiExceptionHandler}

\* The identifiers: one piece, or two joined by an underscore.
IdentifierTexts == UNION {[1..k -> Pieces] : k \in 1..2}
IdentifierLexeme(text) == Lexeme("identifier", text)

\* `str::contains` on an identifier.
Contains(text, piece) == \E i \in DOMAIN text : text[i] = piece

\* FunctionName::from: the names of the built-in functions are matched
\* whole, every other name is UserDefined.
BuiltIns == {<<"basefee">>}
IsUserDefined(text) == text \notin BuiltIns

\* A token: a lexeme and its location in the source.
Token(lexeme, location) == [lexeme |-> lexeme, location |-> location]

\* `lexer.next()` at position i: the lexeme there, or the end of the file.
EndOfFile == Lexeme("eof", "EOF")
TokenAt(tokens, i) ==
    IF i <= Len(tokens) THEN Token(tokens[i], i)
    ELSE Token(EndOfFile, Len(tokens) + 1)

\* The results of the parsers: what was parsed and the position after it,
\* or the error.
ParseOk(value, next) == [ok |-> TRUE, value |-> value, next |-> next]
ParseError(error) == [ok |-> FALSE, error |-> error]

\* A mutation of the error: the location of the token before.
InvalidTokenBefore(token, expected) ==
    [kind |-> "InvalidToken", location |-> token.location - 1,
     expected |-> expected, found |-> token.lexeme.text]

\* ParserError::InvalidToken for `token`
InvalidToken(token, expected) ==
    [kind |-> "InvalidToken", location |-> token.location,
     expected |-> expected, found |-> token.lexeme.text]

\* ParserError::ReservedIdentifier
ReservedIdentifier(location, identifier) ==
    [kind |-> "ReservedIdentifier", location |-> location,
     identifier |-> identifier]

\* ParserError::InvalidNumberOfArguments
InvalidNumberOfArguments(location, identifier, expected, found) ==
    [kind |-> "InvalidNumberOfArguments", location |-> location,
     identifier |-> identifier, expected |-> expected, found |-> found]

\* Identifier::parse_typed_list from position i: identifiers separated by
\* commas; the list ends at the first token that does not go on with it,
\* which is handed back.
RECURSIVE ParseTypedList(_, _, _, _)
ParseTypedList(tokens, i, expected_comma, list) ==
    LET token == TokenAt(tokens, i)
    IN  IF token.lexeme.class = "identifier" /\ ~expected_comma
        THEN ParseTypedList(tokens, i + 1, TRUE,
                Append(list, [inner |-> token.lexeme.text,
                                location |-> token.location]))
        ELSE IF token.lexeme = Symbol(",") /\ expected_comma
        THEN ParseTypedList(tokens, i + 1, FALSE, list)
        ELSE ParseOk(list, i)

\* Block::parse of a function body: an opening bracket and its closing one.
BodyParse(tokens, i) ==
    IF TokenAt(tokens, i).lexeme /= Symbol("{")
    THEN ParseError(InvalidToken(TokenAt(tokens, i), <<"{">>))
    ELSE IF TokenAt(tokens, i + 1).lexeme /= Symbol("}")
    THEN ParseError(InvalidToken(TokenAt(tokens, i + 1), <<"}">>))
    ELSE ParseOk(<<>>, i + 2)

\* The list left whole.
NearCallArgumentsKept(arguments) == arguments

\* `arguments.remove(0)`
NearCallArguments(arguments) == Tail(arguments)

\* FunctionDefinition::parse, from the token after `function`.
FunctionDefinitionParse(tokens, i) ==
    LET token == TokenAt(tokens, i)
        identifier == token.lexeme.text
        location == token.location
        list == ParseTypedList(tokens, i + 2, FALSE, <<>>)
        near_call == Contains(identifier, NearCallAbiPrefix)
        arguments == IF near_call /\ list.value /= <<>>
                     THEN NearCallArguments(list.value) ELSE list.value
        closing == TokenAt(tokens, list.next)
        arrow == TokenAt(tokens, list.next + 1)
        results == IF arrow.lexeme = Symbol("->")
                   THEN ParseTypedList(tokens, list.next + 2, FALSE, <<>>)
                   ELSE ParseOk(<<>>, list.next + 1)
        body == BodyParse(tokens, results.next)
    IN  IF token.lexeme.class /= "identifier"
        THEN ParseError(InvalidToken(token, <<"{identifier}">>))
        ELSE IF ~IsUserDefined(identifier)
        THEN ParseError(ReservedIdentifier(location, identifier))
        ELSE IF TokenAt(tokens, i + 1).lexeme /= Symbol("(")
        THEN ParseError(InvalidToken(TokenAt(tokens, i + 1), <<"(">>))
        ELSE IF near_call /\ list.value = <<>>
        THEN ParseError(InvalidNumberOfArguments(location, identifier, 1,
                                                 Len(list.value)))
        ELSE IF /\ Contains(identifier, NearCallAbiExceptionHandler)
                /\ arguments /= <<>>
        THEN ParseError(InvalidNumberOfArguments(location, identifier, 0,
                                                 Len(arguments)))
        ELSE IF closing.lexeme /= Symbol(")")
        THEN ParseError(InvalidToken(closing, <<")">>))
        ELSE IF arrow.lexeme \notin {Symbol("->"), Symbol("{")}
        THEN ParseError(InvalidToken(arrow, <<"->", "{">>))
        ELSE IF ~body.ok THEN body
        ELSE ParseOk([statement |-> "FunctionDefinition",
                      location |-> location, identifier |-> identifier,
                      arguments |-> arguments, result |-> results.value],
                     body.next)

\* A mutation of the loop over the bindings: the last reserved one.
LastReserved(bindings) ==
    LET reserved == {k \in DOMAIN bindings : ~IsUserDefined(bindings[k].inner)}
    IN  IF reserved = {} THEN 0
        ELSE CHOOSE k \in reserved : \A j \in reserved : j <= k

\* The loop over the bindings of VariableDeclaration::parse: the first
\* binding that is not UserDefined, 0 for none.
FirstReserved(bindings) ==
    LET reserved == {k \in DOMAIN bindings : ~IsUserDefined(bindings[k].inner)}
    IN  IF reserved = {} THEN 0
        ELSE CHOOSE k \in reserved : \A j \in reserved : k <= j

\* VariableDeclaration::parse, from the token after `let`.
VariableDeclarationParse(tokens, i) ==
    LET location == TokenAt(tokens, i).location
        list == ParseTypedList(tokens, i, FALSE, <<>>)
        bindings == list.value
        first == FirstReserved(bindings)
        next == TokenAt(tokens, list.next)
        expression == TokenAt(tokens, list.next + 1)
    IN  IF first /= 0
        THEN ParseError(ReservedIdentifier(bindings[first].location,
                                           bindings[first].inner))
        ELSE IF next.lexeme /= Symbol(":=")
        THEN ParseOk([statement |-> "VariableDeclaration",
                      location |-> location, bindings |-> bindings,
                      expression |-> None], list.next)
        ELSE IF expression.lexeme.class /= "integer"
        THEN ParseError(InvalidToken(expression, <<"{literal}">>))
        ELSE ParseOk([statement |-> "VariableDeclaration",
                      location |-> location, bindings |-> bindings,
                      expression |-> Some(expression.lexeme.text)],
                     list.next + 2)

\* `identifier.ends_with("_deployed")`
IsRuntimeCode(identifier) == identifier.deployed

\* The lexemes of an object: its name, with or without the suffix of the
\* runtime code, the `data` identifier and the code, which Code::parse
\* takes as a whole.
StringLexeme(name, deployed) ==
    Lexeme("string", [name |-> name, deployed |-> deployed])
DataLexeme == IdentifierLexeme(<<"data">>)
CodeLexeme == Keyword("code")

\* Code::parse: the `code` keyword with its block.
CodeParse(tokens, i) ==
    IF TokenAt(tokens, i).lexeme = CodeLexeme THEN ParseOk("code", i + 1)
    ELSE ParseError(InvalidToken(TokenAt(tokens, i), <<"code">>))

\* Object::parse: the `expected` of the match after the code.
ExpectedAfterCode == <<"object", "}">>

\* Object::parse from position i, and the loop after its code from
\* position i with the dependencies found so far.
RECURSIVE ObjectParse(_, _)
RECURSIVE ObjectLoop(_, _, _, _)
ObjectLoop(tokens, i, object, dependencies) ==
    LET token == TokenAt(tokens, i)
        dependency == ObjectParse(tokens, i)
    IN  CASE token.lexeme = Symbol("}") ->
                ParseOk([object EXCEPT !.factory_dependencies = dependencies],
                        i + 1)
          [] token.lexeme = Keyword("object") ->
                IF ~dependency.ok THEN dependency
                ELSE ObjectLoop(tokens, dependency.next, object,
                        dependencies \cup {dependency.value.identifier})
          [] token.lexeme = DataLexeme ->
                ObjectLoop(tokens, i + 3, object, dependencies)
          [] OTHER ->
                ParseError(InvalidToken(token, ExpectedAfterCode))

ObjectParse(tokens, i) ==
    LET token == TokenAt(tokens, i)
        name == TokenAt(tokens, i + 1)
        code == CodeParse(tokens, i + 3)
        has_inner == /\ ~IsRuntimeCode(name.lexeme.text)
                     /\ TokenAt(tokens, code.next).lexeme = Keyword("object")
        inner == ObjectParse(tokens, code.next)
        after_inner == IF has_inner THEN inner.next ELSE code.next
        has_data == /\ ~IsRuntimeCode(name.lexeme.text)
                    /\ TokenAt(tokens, after_inner).lexeme = DataLexeme
        object == [location |-> token.location,
                   identifier |-> name.lexeme.text,
                   inner_object |-> IF has_inner
                                    THEN Some(inner.value.identifier)
                                    ELSE None,
                   factory_dependencies |-> {}]
    IN  IF token.lexeme /= Keyword("object")
        THEN ParseError(InvalidToken(token, <<"object">>))
        ELSE IF name.lexeme.class /= "string"
        THEN ParseError(InvalidToken(name, <<"{string}">>))
        ELSE IF TokenAt(tokens, i + 2).lexeme /= Symbol("{")
        THEN ParseError(InvalidToken(TokenAt(tokens, i + 2), <<"{">>))
        ELSE IF ~code.ok THEN code
        ELSE IF has_inner /\ ~inner.ok THEN inner
        ELSE ObjectLoop(tokens,
                IF has_data THEN after_inner + 3 ELSE after_inner, object,
                IF has_inner THEN inner.value.factory_dependencies ELSE {})

\* ---- the sources the parsers are run on: well-formed statements, and the
\* same with one token replaced or with the rest cut off.

RECURSIVE TypedList(_, _)
TypedList(names, k) ==
    IF k > Len(names) THEN <<>>
    ELSE (IF k = 1 THEN <<>> ELSE <<Symbol(",")>>)
            \o <<IdentifierLexeme(names[k])>> \o TypedList(names, k + 1)

\* `name(arguments) -> result { }`, the tokens after `function`.
FunctionTokens(name, arguments, results) ==
    <<IdentifierLexeme(name), Symbol("(")>> \o TypedList(arguments, 1)
        \o <<Symbol(")")>>
        \o (IF results = <<>> THEN <<>>
            ELSE <<Symbol("->")>> \o TypedList(results, 1))
        \o <<Symbol("{"), Symbol("}")>>

\* `bindings := 42` or `bindings`, the tokens after `let`.
DeclarationTokens(bindings, initialized) ==
    TypedList(bindings, 1)
        \o (IF initialized THEN <<Symbol(":="), Lexeme("integer", "42")>>
            ELSE <<>>)

\* `object "name" { code ... }`
ObjectTokens(name, deployed, rest) ==
    <<Keyword("object"), StringLexeme(name, deployed), Symbol("{"),
      CodeLexeme>> \o rest \o <<Symbol("}")>>

DataTokens == <<DataLexeme, StringLexeme("m", FALSE), Lexeme("hex", "00")>>

WellFormedFunctions ==
    {FunctionTokens(name, [k \in 1..n |-> <<"f">>], results) :
        name \in IdentifierTexts, n \in 0..MaxDeclared,
        results \in {<<>>, <<<<"f">>>>}}

WellFormedDeclarations ==
    {DeclarationTokens(bindings, initialized) :
        bindings \in UNION {[1..n -> {<<"f">>, <<"basefee">>}] :
                                n \in 1..MaxDeclared},
        initialized \in BOOLEAN}

WellFormedObjects ==
    LET runtime == ObjectTokens("A", TRUE, <<>>)
        dependency == ObjectTokens("B", FALSE, <<>>)
    IN  {ObjectTokens("A", FALSE, rest) :
            rest \in {<<>>, runtime, DataTokens, runtime \o DataTokens,
                      runtime \o dependency, dependency \o DataTokens}}
            \cup {ObjectTokens("A", TRUE, rest) :
                    rest \in {<<>>, dependency, DataTokens}}

\* The lexemes a token of a source is replaced by.
Replacements ==
    {Symbol(text) : text \in {"(", ")", "{", "}", "->", ":=", ","}}
        \cup {Keyword("object"), CodeLexeme, DataLexeme,
              IdentifierLexeme(<<"f">>), IdentifierLexeme(<<"basefee">>),
              StringLexeme("A", FALSE), Lexeme("integer", "256")}

\* The sources got from a well-formed one by at most one replacement or cut.
Damaged(tokens) ==
    {tokens}
        \cup {[tokens EXCEPT ![i] = lexeme] :
                i \in DOMAIN tokens, lexeme \in Replacements}
        \cup {SubSeq(tokens, 1, n) : n \in 0..(Len(tokens) - 1)}

YulParserInit ==
    /\ lexer \in
        [pc : {"function"}, tokens : UNION {Damaged(t) : t \in WellFormedFunctions}]
        \cup [pc : {"let"}, tokens : UNION {Damaged(t) : t \in WellFormedDeclarations}]
        \cup [pc : {"object"}, tokens : UNION {Damaged(t) : t \in WellFormedObjects}]
    /\ parsed = [pc |-> "start"]
    /\ SchedulerIdle /\ ContractIdle /\ IRIdle /\ TranslatorIdle
    /\ AssemblyIdle /\ BuildIdle

Returned(r) == [pc |-> "returned", result |-> r]

ParseFunctionDefinition ==
    /\ lexer.pc = "function"
    /\ parsed.pc = "start"
    /\ parsed' = Returned(FunctionDefinitionParse(lexer.tokens, 1))
    /\ UNCHANGED lexer
    /\ UNCHANGED exceptParser

ParseVariableDeclaration ==
    /\ lexer.pc = "let"
    /\ parsed.pc = "start"
    /\ parsed' = Returned(VariableDeclarationParse(lexer.tokens, 1))
    /\ UNCHANGED lexer
    /\ UNCHANGED exceptParser

ParseObject ==
    /\ lexer.pc = "object"
    /\ parsed.pc = "start"
    /\ parsed' = Returned(ObjectParse(lexer.tokens, 1))
    /\ UNCHANGED lexer
    /\ UNCHANGED exceptParser

YulParserNext ==
    \/ ParseFunctionDefinition
    \/ ParseVariableDeclaration
    \/ ParseObject

YulParserSpec == YulParserInit /\ [][YulParserNext]_vars

\* ------------------------------------------------------------ Block::parse
\* The parser of a block of statements, on sources of curly brackets.

MaxBrackets == 9

\* ParserError::expected_one_of
ExpectedOneOf(expected, lexeme) ==
    [kind |-> "ExpectedOneOf", expected |-> expected, found |-> lexeme.text]

\* Statement::Block
StatementBlock(block) == [statement |-> "Block", statements |-> block.statements]

\* A mutation of `statements.push`: the statement goes to the front.
PushFront(statements, statement) == <<statement>> \o statements

\* `statements.push(statement)`
Push(statements, statement) == Append(statements, statement)

\* Block::parse from position i, and its loop from position i with the
\* statements found so far. The lexemes that are not brackets are the end of
\* the file, which the last arm of the loop rejects.
RECURSIVE BlockParse(_, _)
RECURSIVE BlockLoop(_, _, _)
BlockLoop(tokens, i, statements) ==
    LET lexeme == TokenAt(tokens, i).lexeme
        nested == BlockParse(tokens, i)
    IN  CASE lexeme = Symbol("{") ->
                IF ~nested.ok THEN nested
                ELSE BlockLoop(tokens, nested.next,
                               Push(statements, StatementBlock(nested.value)))
          [] lexeme = Symbol("}") ->
                ParseOk([statements |-> statements], i + 1)
          [] OTHER ->
                ParseError(ExpectedOneOf(
                    <<"{keyword}", "{expression}", "{identifier}", "{", "}">>,
                    lexeme))

BlockParse(tokens, i) ==
    LET lexeme == TokenAt(tokens, i).lexeme
    IN  IF lexeme /= Symbol("{")
        THEN ParseError(ExpectedOneOf(<<"{">>, lexeme))
        ELSE BlockLoop(tokens, i + 1, <<>>)

\* The sources: the sequences of curly brackets.
Brackets == {Symbol("{"), Symbol("}")}
BracketSources == UNION {[1..n -> Brackets] : n \in 0..MaxBrackets}

BlockInit ==
    /\ lexer \in [pc : {"block"}, tokens : BracketSources]
    /\ parsed = [pc |-> "start"]
    /\ SchedulerIdle /\ ContractIdle /\ IRIdle /\ TranslatorIdle
    /\ AssemblyIdle /\ BuildIdle

ParseBlock ==
    /\ lexer.pc = "block"
    /\ parsed.pc = "start"
    /\ parsed' = Returned(BlockParse(lexer.tokens, 1))
    /\ UNCHANGED lexer
    /\ UNCHANGED exceptParser

BlockNext == ParseBlock

BlockSpec == BlockInit /\ [][BlockNext]_vars

\* ------------------------------------------- Assembly::deploy_dependencies_pass
\* The pass over the `.data` of an assembly that replaces the nested
\* assemblies of the deploy code with the paths of their contracts.

MaxDependencies == 2

\* The keys of `.data`: "0" for the runtime code, a hexadecimal index for
\* every other nested assembly, and the 64 digits of a hash for a constant.
HexDigits == <<"1", "2", "3", "4", "5", "6", "7", "8", "9",
               "A", "B", "C", "D", "E", "F">>
RuntimeIndex == <<"0">>
DependencyIndexes == {<<HexDigits[k]>> : k \in 1..MaxDependencies}
ConstantIndex == [k \in 1..(SizeField * 2) |-> "F"]

\* The keys in the order of the BTreeMap.
IndexOrder ==
    <<RuntimeIndex>> \o [k \in 1..MaxDependencies |-> <<HexDigits[k]>>]
        \o <<ConstantIndex>>

\* Data
DataAssembly(auxdata) == [data |-> "Assembly", auxdata |-> auxdata]
DataHash(hash) == [data |-> "Hash", hash |-> hash]
DataPath(path) == [data |-> "Path", path |-> path]

\* Assembly::keccak256: the fingerprint of the JSON of the assembly, which
\* tells the assemblies apart.
Keccak256(nested) == NumHashes + 1 - nested.auxdata

\* The paths of the contracts, and the mappings from hashes to them.
FullPaths == {"P", "Q"}
HashDataMappings ==
    UNION {[known -> FullPaths] : known \in SUBSET Hashes}

\* `"0".repeat(compiler_common::SIZE_FIELD * 2)`
ZeroIndex == [k \in 1..(SizeField * 2) |-> "0"]

\* A mutation of the extension of the index: the index as it is.
IndexAsIs(index) == index

\* `"0".repeat(SIZE_FIELD * 2 - index.len())` with the index pushed after it
IndexExtended(index) ==
    [k \in 1..(SizeField * 2 - Len(index)) |-> "0"] \o index

\* `index_path_mapping.insert`, `dependencies` and the set of dependencies
\* after the entry under `index`, or the error of the entry.
DeployDependency(self, mapping, index, hash_data_mapping) ==
    LET data == self.data.value[index]
        hash == Keccak256(data)
        full_path == hash_data_mapping[hash]
    IN  IF index = RuntimeIndex THEN [ok |-> TRUE, self |-> self, mapping |-> mapping]
        ELSE IF data.data = "Assembly"
        THEN IF hash \notin DOMAIN hash_data_mapping
             THEN [ok |-> FALSE, self |-> self,
                   error |-> [message |-> "Contract path not found for hash",
                              hash |-> hash]]
             ELSE [ok |-> TRUE,
                   self |-> [data |-> Some([self.data.value EXCEPT
                                            ![index] = DataPath(full_path)]),
                             deploy_factory_dependencies |->
                                self.deploy_factory_dependencies
                                    \cup {full_path}],
                   mapping |-> mapping
                        @@ (IndexExtended(index) :> full_path)]
        ELSE IF data.data = "Hash"
        THEN [ok |-> TRUE, self |-> self,
              mapping |-> mapping @@ (index :> data.hash)]
        ELSE [ok |-> TRUE, self |-> self, mapping |-> mapping]

\* The loop over `dependencies.iter_mut()` from the k-th key on.
RECURSIVE DeployDependenciesLoop(_, _, _, _)
DeployDependenciesLoop(self, mapping, k, hash_data_mapping) ==
    IF k > Len(IndexOrder) THEN [ok |-> TRUE, self |-> self, value |-> mapping]
    ELSE IF IndexOrder[k] \notin DOMAIN self.data.value
    THEN DeployDependenciesLoop(self, mapping, k + 1, hash_data_mapping)
    ELSE LET step == DeployDependency(self, mapping, IndexOrder[k],
                                      hash_data_mapping)
         IN  IF ~step.ok THEN step
             ELSE DeployDependenciesLoop(step.self, step.mapping, k + 1,
                                         hash_data_mapping)

\* Assembly::deploy_dependencies_pass
DeployDependenciesPassOf(self, full_path, hash_data_mapping) ==
    LET index_path_mapping == ZeroIndex :> full_path
    IN  IF ~self.data.some
        THEN [ok |-> TRUE, self |-> self, value |-> index_path_mapping]
        ELSE DeployDependenciesLoop(self, index_path_mapping, 1,
                                    hash_data_mapping)

\* The entries of `.data`: the runtime code under "0", assemblies, paths
\* and hashes under the indexes, a hash under the key of a constant.
Entries(index) ==
    IF index = ConstantIndex THEN {DataHash("00")}
    ELSE {DataAssembly(auxdata) : auxdata \in Hashes}
            \cup (IF index = RuntimeIndex THEN {}
                  ELSE {DataHash("00"), DataPath("Q")})

DataMaps ==
    UNION {{data \in [keys -> UNION {Entries(index) : index \in keys}] :
                \A index \in keys : data[index] \in Entries(index)} :
           keys \in SUBSET ({RuntimeIndex, ConstantIndex}
                                \cup DependencyIndexes)}

Assemblies ==
    [data : {None} \cup {Some(data) : data \in DataMaps},
     deploy_factory_dependencies : {{}}]

AssemblyInit ==
    /\ assembly \in [pc : {"loaded"}, self : Assemblies,
                     full_path : {"P"}, hash_data_mapping : HashDataMappings]
    /\ passed = [pc |-> "idle"]
    /\ SchedulerIdle /\ ContractIdle /\ IRIdle /\ TranslatorIdle
    /\ ParserIdle /\ BuildIdle

DeployDependenciesPass ==
    /\ assembly.pc = "loaded"
    /\ LET pass == DeployDependenciesPassOf(assembly.self, assembly.full_path,
                                            assembly.hash_data_mapping)
       IN  /\ assembly' = [assembly EXCEPT !.pc = "passed",
                                           !.self = pass.self]
           /\ passed' = [pc |-> "returned", before |-> assembly.self,
                         result |-> IF pass.ok
                                    THEN [ok |-> TRUE, value |-> pass.value]
                                    ELSE [ok |-> FALSE, error |-> pass.error]]
    /\ UNCHANGED exceptAssembly

AssemblyNext == DeployDependenciesPass

AssemblySpec == AssemblyInit /\ [][AssemblyNext]_vars

\* ------------------------------------------------ Contract::write_to_directory
\* The writing of the build of a contract to the files of a directory.

\* Contract::short_path: the path after its last slash.
ShortPath(path) ==
    LET slashes == {i \in DOMAIN path : path[i] = "/"}
        last_slash == CHOOSE i \in slashes : \A j \in slashes : j <= i
    IN  IF slashes = {} THEN path
        ELSE SubSeq(path, last_slash + 1, Len(path))

ContractPaths == {<<"T">>, <<"d", "/", "T">>, <<"d", "/", "e", "/", "T">>}

\* `format!("{}.{}.{}", file_name, code_type, extension)` and
\* `format!("{}.{}", file_name, EXTENSION_ABI)`
FileName(file_name, code_type, extension) ==
    file_name \o <<".">> \o <<code_type>> \o <<".">> \o <<extension>>
AbiFileName(file_name) == file_name \o <<".">> \o <<"abi">>

\* The files of the build in the order they are written, each with the
\* flag that selects it and what is written to it.
OutputFiles(self, output_assembly, output_binary, output_abi) ==
    LET file_name == ShortPath(self.path)
    IN  <<[file_path |-> FileName(file_name, "deploy", "zasm"),
           selected |-> output_assembly,
           bytes |-> self.deploy_build.assembly_text],
          [file_path |-> FileName(file_name, "runtime", "zasm"),
           selected |-> output_assembly,
           bytes |-> self.runtime_build.assembly_text],
          [file_path |-> FileName(file_name, "deploy", "zbin"),
           selected |-> output_binary,
           bytes |-> self.deploy_build.bytecode],
          [file_path |-> FileName(file_name, "runtime", "zbin"),
           selected |-> output_binary,
           bytes |-> self.runtime_build.bytecode],
          [file_path |-> AbiFileName(file_name),
           selected |-> self.abi.some /\ output_abi,
           bytes |-> IF self.abi.some THEN self.abi.value ELSE ""]>>

\* `file_path.exists()`
Exists(files, file_path) == file_path \in DOMAIN files

\* A mutation of the test before a file is written: the file is written
\* whether it exists or not.
RefusesNever(files, file_path, overwrite) == FALSE

\* `file_path.exists() && !overwrite`
Refuses(files, file_path, overwrite) == Exists(files, file_path) /\ ~overwrite

\* `File::create(..)?.write_all(..)?`: the file holds the bytes, or the
\* file cannot be created and the error is returned.
CreateAndWrite(files, file_path, bytes) ==
    (file_path :> bytes) @@ files

\* The blocks of write_to_directory from the k-th file on; `denied` are the
\* files that cannot be created.
RECURSIVE WriteFrom(_, _, _, _, _)
WriteFrom(files, outputs, k, overwrite, denied) ==
    IF k > Len(outputs) THEN [ok |-> TRUE, files |-> files]
    ELSE LET entry == outputs[k]
         IN  IF ~entry.selected
             THEN WriteFrom(files, outputs, k + 1, overwrite, denied)
             ELSE IF Refuses(files, entry.file_path, overwrite)
             THEN WriteFrom(files, outputs, k + 1, overwrite, denied)
             ELSE IF entry.file_path \in denied
             THEN [ok |-> FALSE, files |-> files,
                   error |-> [message |-> "creating error",
                              file_path |-> entry.file_path]]
             ELSE WriteFrom(CreateAndWrite(files, entry.file_path,
                                           entry.bytes),
                            outputs, k + 1, overwrite, denied)

\* The builds: the texts and the bytes are new, the files of the directory
\* hold old ones.
Builds ==
    [path : ContractPaths,
     deploy_build : {[assembly_text |-> "deploy text", bytecode |-> "deploy bytes"]},
     runtime_build : {[assembly_text |-> "runtime text", bytecode |-> "runtime bytes"]},
     abi : {None, Some("abi json")}]

FilesOf(self) ==
    LET outputs == OutputFiles(self, TRUE, TRUE, TRUE)
    IN  {outputs[k].file_path : k \in DOMAIN outputs}

BuildInit ==
    /\ \E self \in Builds, overwrite \in BOOLEAN :
        \E existing \in SUBSET FilesOf(self) :
            \E denied \in {{}} \cup {{file_path} : file_path \in FilesOf(self)} :
                /\ directory = [file_path \in existing |-> "old"]
                /\ written = [pc |-> "built", self |-> self,
                              overwrite |-> overwrite, denied |-> denied]
    /\ SchedulerIdle /\ ContractIdle /\ IRIdle /\ TranslatorIdle
    /\ ParserIdle /\ AssemblyIdle

WriteToDirectory(output_assembly, output_binary, output_abi) ==
    /\ written.pc = "built"
    /\ LET outputs == OutputFiles(written.self, output_assembly,
                                  output_binary, output_abi)
           outcome == WriteFrom(directory, outputs, 1, written.overwrite,
                                written.denied)
       IN  /\ directory' = outcome.files
           /\ written' = [written EXCEPT !.pc = "returned"]
                @@ [before |-> directory, outputs |-> outputs,
                    ok |-> outcome.ok]
    /\ UNCHANGED exceptBuild

BuildNext ==
    \E output_assembly, output_binary, output_abi \in BOOLEAN :
        WriteToDirectory(output_assembly, output_binary, output_abi)

BuildSpec == BuildInit /\ [][BuildNext]_vars

\* ----------------------------------------------------------- properties

\* C1: Contract::compile is entered at most once per contract path, and at
\* any time at most one Project::compile call is inside the Source arm of a
\* path, whatever the interleaving of the requests.
C1_CompiledAtMostOnce ==
    \A p \in Paths :
        /\ compileCount[p] <= 1
        /\ Cardinality(Owners(p)) <= 1
        /\ (Owners(p) # {} => compileCount[p] = 1)

\* C1 witness: a path is being compiled by one thread while another thread
\* has requested the same path and found the waiter.
C1_Witness ==
    \E p \in Paths, t \in Threads :
        /\ Owners(p) # {}
        /\ \A o \in Owners(p) : o[1] # t
        /\ Running(t)
        /\ Top(t).path = p
        /\ Top(t).pc \in {"prewait", "waiting"}

\* C2: no thread is blocked on the handle of a path whose slot is Build or
\* Error and whose owner has already called notify_all.
C2_NoBlockedAfterResolved ==
    \A t \in Threads :
        At(t, "waiting") =>
            ~(/\ contract_states[Top(t).path].kind \in Resolved
              /\ Owners(Top(t).path) = {})

\* C3: as long as no contract has requested itself through a chain of
\* requests and no worker has panicked, the build is complete or some thread
\* can take a step: no state is reached in which the workers that remain are
\* blocked for good.
C3_AcyclicNeverStuck ==
    (~CyclicRequests /\ ~panicked) =>
        (output.status # "running" \/ ENABLED Progress)

\* C4: a thread never waits on the waiter of a path that one of its own
\* calls further down its stack is compiling.
C4_NoWaitOnOwnWaiter ==
    \A t \in Threads :
        (Running(t) /\ Top(t).pc \in {"prewait", "waiting"}) =>
            \A i \in Frames(t) :
                ~(i < Len(stack[t]) /\ stack[t][i].path = Top(t).path)

\* C5: when Project::compile has returned to Dependency::compile, the slot
\* of the requested path is Build or Error.
C5_ResolvedOnReturn ==
    \A t \in Threads :
        At(t, "dep_read") => Slot(Top(t).dep).kind \in Resolved

\* C6: every slot starts as Source and always holds one of Source, Waiter,
\* Build, Error (the map lacks a key only while a thread holds the lock); a
\* slot changes only from Source to Waiter and from Waiter to Build or to
\* Error, so a Build or an Error never changes.
C6_SlotLifecycle ==
    /\ \A p \in Paths : contract_states[p] = Source(p)
    /\ [](\A p \in Paths :
            /\ Slot(p).kind \in {"Source", "Waiter", "Build", "Error"}
            /\ (lock = NoThread => contract_states[p].kind # "Absent"))
    /\ [][\A p \in Paths :
            \/ Slot(p)' = Slot(p)
            \/ Slot(p).kind = "Source" /\ Slot(p)'.kind = "Waiter"
            \/ Slot(p).kind = "Waiter" /\ Slot(p)'.kind \in Resolved]_vars

\* C6 witness: one slot has reached Build, another has reached Error, and
\* a later request has moved one of them out of the map again.
C6_Witness ==
    /\ \E p \in Paths : Slot(p).kind = "Build"
    /\ \E p \in Paths : Slot(p).kind = "Error"
    /\ \E p \in Paths : contract_states[p].kind = "Absent"

\* C7: the thread that holds the write lock is inside the swap at the top
\* of Project::compile or inside the store of a result, never inside
\* Contract::compile.
C7_NoLockWhileCompiling ==
    \A t \in Threads :
        lock = t => (Running(t) /\ Top(t).pc \in GuardPcs)

\* C7 witness: a request made from inside a compilation (a second frame)
\* has taken the lock while another thread is inside Contract::compile.
C7_Witness ==
    \E t \in Threads, u \in Threads :
        /\ t # u
        /\ lock = t
        /\ Len(stack[t]) >= 2
        /\ At(t, "removed")
        /\ At(u, "lowering")

\* C8: a Project::compile call that finds its slot Build or Error changes
\* no slot and starts no compilation from the moment it holds the lock (no
\* other thread can, either), and its own step after the `remove` puts the
\* same state back, frees the lock and returns.
C8_ResolvedIdempotent ==
    [][\A t \in Threads :
        (/\ lock = t
         /\ Running(t)
         /\ Top(t).pc = "removed"
         /\ Slot(Top(t).path).kind \in Resolved)
        => /\ \A q \in Paths : Slot(q)' = Slot(q)
           /\ compileCount' = compileCount
           /\ (Top(t).pc = "removed" /\ stack'[t] # stack[t]) =>
                /\ contract_states' =
                       [contract_states EXCEPT ![Top(t).path] = Top(t).st]
                /\ Len(stack'[t]) = Len(stack[t]) - 1
                /\ lock' = NoThread]_vars

\* C8 witness: a call has removed a Build from the map (a request for an
\* already built contract), made by a dependency callback.
C8_Witness ==
    \E t \in Threads :
        /\ At(t, "removed")
        /\ Top(t).st.kind = "Build"
        /\ Len(stack[t]) >= 2

FirstErrorPath ==
    CHOOSE p \in Paths :
        /\ contract_states[p].kind = "Error"
        /\ \A q \in Paths : contract_states[q].kind = "Error" => p <= q

\* C10: compile_all returns Ok only when every slot is Build, and then with
\* one build per path; when some slot is Error it returns that of the first
\* such path and no build; main_inner writes files only for an Ok.
C10_AllOrFirstError ==
    /\ result.kind = "Ok" =>
          /\ \A p \in Paths : contract_states[p].kind = "Build"
          /\ result.builds = Paths
    /\ (result.kind \in {"Ok", "Err"}
            /\ \E p \in Paths : contract_states[p].kind = "Error") =>
          /\ result.kind = "Err"
          /\ result.builds = {}
          /\ result.error = contract_states[FirstErrorPath]
    /\ output.status # "running" =>
          output.files = (IF result.kind = "Ok" THEN Paths ELSE {})

\* C10 witness: compile_all has returned an error although some contract
\* was built, and main_inner has ended without writing.
C10_Witness ==
    /\ result.kind = "Err"
    /\ \E p \in Paths : contract_states[p].kind = "Build"
    /\ output.status = "error"

\* C11: Contract::compile compiles the runtime code first and starts the
\* deploy code only once the runtime build's hash is stored in it: neither
\* pass of the deploy code reads an unset hash (no panic), each pass is
\* handed the hash of the runtime build, a hash that is set never changes,
\* and after a failed runtime compilation the deploy code is never touched.
C11_RuntimeBeforeDeploy ==
    /\ [](\A p \in DOMAIN contracts :
            LET c == contracts[p] IN
            /\ c.ret.kind # "Panic"
            /\ DeployStarted(p) =>
                  /\ c.runtime_build.some
                  /\ c.deploy_code.runtime_code_hash = c.runtime_build
            /\ c.deploy_code.declared.some =>
                  c.deploy_code.declared = c.runtime_build
            /\ c.deploy_code.defined.some =>
                  c.deploy_code.defined = c.runtime_build
            /\ (c.ret.kind = "Err" /\ c.ret.at = "runtime_compile") =>
                  /\ ~DeployStarted(p)
                  /\ c.deploy_code.runtime_code_hash = None)
    /\ [][\A p \in DOMAIN contracts :
            /\ contracts[p].deploy_code.runtime_code_hash.some =>
                  contracts'[p].deploy_code.runtime_code_hash
                      = contracts[p].deploy_code.runtime_code_hash
            /\ contracts[p].pc = "returned" => contracts'[p] = contracts[p]]_vars

\* Both passes of a deploy code have run with the hash of the runtime build
\* and the contract is built, while another contract failed in its runtime
\* code.
C11_Witness ==
    \E p, q \in DOMAIN contracts :
        /\ contracts[p].ret.kind = "Ok"
        /\ contracts[p].deploy_code.defined = contracts[p].runtime_build
        /\ contracts[p].deploy_code.declared = contracts[p].runtime_build
        /\ contracts[q].ret = [kind |-> "Err", at |-> "runtime_compile"]

C14_BlocksPartition ==
    /\ \A i \in DOMAIN spans : spans[i].size >= 1
    /\ \A i \in DOMAIN spans :
          spans[i].start = IF i = 1 THEN 0
                           ELSE spans[i - 1].start + spans[i - 1].size
    /\ offset = IF spans = <<>> THEN 0
                ELSE spans[Len(spans)].start + spans[Len(spans)].size
    /\ offset <= Len(instructions)
    /\ \A i \in DOMAIN spans : spans[i].key \in DOMAIN blocks
    /\ ir.pc \notin {"get_blocks", "idle"} =>
          /\ offset = Len(instructions)
          /\ \A i \in DOMAIN instructions :
                instructions[i].name = "Tag" =>
                    instructions[i].value \in DOMAIN blocks

\* get_blocks has returned on a list of several blocks, one of them longer
\* than one instruction, with a tag that no instruction pushes.
C14_Witness ==
    /\ ir.pc = "new"
    /\ Len(spans) >= 2
    /\ \E i \in DOMAIN spans : spans[i].size >= 2
    /\ \E i \in DOMAIN instructions :
          /\ instructions[i].name = "Tag"
          /\ \A j \in DOMAIN instructions :
                instructions[j].name = "PUSH_Tag" =>
                    instructions[j].value # instructions[i].value

\* The element lowered last, when it was an `op` the symbolic stack had the
\* elements for.
LoweredOp(op) ==
    /\ lowering.steps > 0
    /\ lowering.instruction.name.op = op
    /\ ~StackUnderflow(lowering.instruction.name, lowering.pre)

\* C16: SWAPn on a stack of more than n elements exchanges the top element
\* with the element n positions below it, value and original tag together,
\* and leaves the height and every other slot as they were; the same SWAPn
\* applied twice in a row gives back the stack before the first of the two.
C16_SwapExchanges ==
    /\ [](LoweredOp("SWAP") =>
            LET n == lowering.instruction.name.n
                top == lowering.pre
            IN  /\ lowering.outcome = "Ok"
                /\ height = lowering.pre
                /\ Len(evmla_stack) = Len(lowering.before)
                /\ evmla_stack[top] = lowering.before[top - n]
                /\ evmla_stack[top - n] = lowering.before[top]
                /\ \A i \in DOMAIN evmla_stack :
                        i \notin {top, top - n} =>
                            evmla_stack[i] = lowering.before[i])
    /\ [][(/\ LoweredOp("SWAP")
           /\ lowering'.steps = lowering.steps + 1
           /\ lowering'.instruction = lowering.instruction)
              => evmla_stack' = lowering.before]_vars

C16_Witness ==
    /\ LoweredOp("SWAP")
    /\ lowering.instruction.name.n = MaxDepth
    /\ lowering.steps = 2
    /\ lowering.before /= InitialStack
    /\ evmla_stack = InitialStack

\* C17: DUPn on a stack of at least n elements stores to the new top slot
\* the value of the n-th element from the old top together with that
\* element's original tag, not the tag of the DUP, and leaves the value and
\* the original tag of every other slot as they were.
C17_DupCopies ==
    LoweredOp("DUP") =>
        LET n == lowering.instruction.name.n
            top == lowering.pre
        IN  /\ lowering.outcome = "Ok"
            /\ height = lowering.pre + 1
            /\ Len(evmla_stack) = Len(lowering.before)
            /\ evmla_stack[top + 1] =
                    Argument(lowering.before[top - n + 1].value,
                             lowering.before[top - n + 1].original)
            /\ \A i \in DOMAIN evmla_stack :
                    i /= top + 1 => evmla_stack[i] = lowering.before[i]

C17_Witness ==
    /\ LoweredOp("DUP")
    /\ lowering.instruction.name.n = MaxDepth
    /\ lowering.pre = MaxDepth
    /\ evmla_stack[lowering.pre + 1].original.some
    /\ lowering.instruction.value = None

\* The arithmetic and logic instructions of the elements.
Arithmetic == {"ADD", "ISZERO", "ADDMOD"}

\* C15: after every arithmetic or logic instruction the height is the height
\* before it less its input arity plus its output arity, read from the slots
\* under the old top and written to the new top, and never negative; an
\* instruction with more inputs than the stack holds ends the build with
\* an error and indexes no slot.
C15_HeightByArity ==
    /\ height >= 0
    /\ (lowering.steps > 0 /\ lowering.instruction.name.op \in Arithmetic) =>
        LET name == lowering.instruction.name
        IN  IF lowering.pre < InputSize(name)
            THEN /\ lowering.outcome = "Err"
                 /\ lowering.error = "StackUnderflow"
                 /\ lowering.reads = <<>>
                 /\ lowering.written = -1
                 /\ height = lowering.pre
                 /\ evmla_stack = lowering.before
            ELSE /\ lowering.outcome = "Ok"
                 /\ height = lowering.pre - InputSize(name) + OutputSize(name)
                 /\ lowering.reads =
                        [k \in 1..InputSize(name) |-> lowering.pre - k]
                 /\ lowering.written = height - 1
                 /\ evmla_stack[height].value = lowering.value.value
                 /\ \A i \in DOMAIN evmla_stack :
                        i /= height => evmla_stack[i] = lowering.before[i]

C15_Witness ==
    /\ lowering.steps = MaxSteps
    /\ lowering.instruction.name.op = "ADDMOD"
    /\ lowering.pre = 2
    /\ lowering.outcome = "Err"
    /\ lowering.before /= InitialStack

\* The call of the Yul statement lowered last, when it was an `op` with
\* `n` arguments that are all literals.
Called(op, n) ==
    /\ yul.pc = "done"
    /\ yul.name.op = op
    /\ Len(yul.arguments) = n
    /\ \A i \in DOMAIN yul.arguments : yul.arguments[i].kind = "literal"

\* C18: the call of the event log that LOGk emits gets the offset and the
\* size first and then the k topics in the order of the source, t0 first:
\* in Yul the arguments of the call as written, the tail reversed before
\* it is popped and reversed back after; in the legacy assembly the slots
\* from the top of the stack down.
C18_LogTopicsInOrder ==
    /\ \A k \in 0..4 :
        (Called("Log", k + 2) /\ yul.name.n = k) =>
            /\ yul.outcome = "Ok"
            /\ yul.call =
                Call("event_log",
                     [i \in 1..(k + 2) |->
                        ExpressionIntoLLVM(yul.arguments[i]).value])
    /\ LoweredOp("LOG") =>
            /\ lowering.outcome = "Ok"
            /\ lowering.call =
                Call("event_log",
                     [i \in 1..(lowering.instruction.name.n + 2) |->
                        lowering.before[lowering.pre - i + 1].value])

C18_Witness ==
    /\ Called("Log", 6)
    /\ yul.name.n = 4
    /\ yul.arguments[3] /= yul.arguments[6]
    /\ yul.arguments[4] /= yul.arguments[5]
    /\ yul.call.function = "event_log"

\* The instructions that take their operand from the instruction value.
ValueInstructions ==
    {"PUSH", "PUSH_Tag", "PUSH_ContractHash", "PUSH_ContractHashSize",
     "PUSHLIB", "PUSH_Data", "PUSHIMMUTABLE", "ASSIGNIMMUTABLE", "Tag"}

\* C19: an instruction that takes its operand from the instruction value and
\* has none ends the lowering with the error of the missing value: it does
\* not panic, and no value is stored in place of the missing one.
C19_MissingValueIsError ==
    (/\ lowering.steps > 0
     /\ lowering.instruction.name.op \in ValueInstructions
     /\ ~lowering.instruction.value.some
     /\ ~StackUnderflow(lowering.instruction.name, lowering.pre)) =>
        /\ lowering.outcome = "Err"
        /\ lowering.error = "Instruction value missing"
        /\ evmla_stack = lowering.before

\* The arity of the calls that have no counterpart on the target.
PlaceholderArity(op) ==
    CASE op \in {"PC", "PUSHSIZE", "Pc"} -> 0
      [] op \in {"SELFDESTRUCT", "SelfDestruct"} -> 1
      [] op \in {"EXTCODECOPY", "ExtCodeCopy"} -> 4

\* C20: PC, PUSHSIZE, SELFDESTRUCT and EXTCODECOPY never fail the build: the
\* element of the legacy assembly and the call of Yul alike give the
\* constant zero or no value, and read their declared inputs and no more.
C20_PlaceholdersNeverFail ==
    /\ (\E op \in {"PC", "PUSHSIZE", "SELFDESTRUCT", "EXTCODECOPY"} :
            LoweredOp(op)) =>
            /\ lowering.outcome = "Ok"
            /\ lowering.value \in {None, Some(FieldConst(0))}
            /\ lowering.call = NoCall
            /\ lowering.reads =
                [k \in 1..PlaceholderArity(lowering.instruction.name.op) |->
                    lowering.pre - k]
    /\ \A op \in {"Pc", "SelfDestruct", "ExtCodeCopy"} :
            Called(op, PlaceholderArity(op)) =>
                /\ yul.outcome = "Ok"
                /\ yul.value \in {None, Some(FieldConst(0))}
                /\ yul.call = NoCall
                /\ yul.evaluated = PlaceholderArity(op)

\* The source is one or more objects and nothing else, and parse_contract
\* has returned.
ObjectsOnly ==
    /\ lexer.pc = "parse_contract"
    /\ parsed.pc = "returned"
    /\ Len(lexer.input) >= 1
    /\ \A i \in DOMAIN lexer.input : lexer.input[i].unit = "object"

\* C21: on a source of one or more objects parse_contract returns the
\* object of `contract` when one is given and the source has it, and the
\* last object of the source when none is given.
C21_ParseContractSelects ==
    ObjectsOnly =>
        IF lexer.contract.some
        THEN (\E i \in DOMAIN lexer.input :
                    IsContract(lexer.input[i].identifier, lexer.contract))
                => /\ parsed.result.ok
                   /\ IsContract(parsed.result.object.identifier,
                                 lexer.contract)
                   /\ lexer.input[parsed.result.object.at] =
                        ObjectUnit(parsed.result.object.identifier)
        ELSE /\ parsed.result.ok
             /\ parsed.result.object =
                    ParsedObject(lexer.input[Len(lexer.input)].identifier,
                                 Len(lexer.input))

\* The parser run on the source has returned.
ParserReturned(entry) == lexer.pc = entry /\ parsed.pc = "returned"

\* The parser has failed with the error.
FailedWith(error) == ~parsed.result.ok /\ parsed.result.error = error

\* The bindings of the declaration of the source, as the list parser
\* takes them.
Bindings == ParseTypedList(lexer.tokens, 1, FALSE, <<>>).value

\* C22: a function definition whose name is the name of a built-in function,
\* and a variable declaration with a binding that is one, fail with
\* ReservedIdentifier for that identifier at the location of its token: the
\* name of the function, the first such binding of the list.
C22_ReservedIdentifier ==
    /\ (/\ ParserReturned("function")
        /\ TokenAt(lexer.tokens, 1).lexeme.class = "identifier"
        /\ TokenAt(lexer.tokens, 1).lexeme.text \in BuiltIns) =>
            FailedWith(ReservedIdentifier(1, lexer.tokens[1].text))
    /\ ParserReturned("let") =>
        \A k \in DOMAIN Bindings :
            (/\ Bindings[k].inner \in BuiltIns
             /\ \A j \in 1..(k - 1) : Bindings[j].inner \notin BuiltIns) =>
                /\ FailedWith(ReservedIdentifier(Bindings[k].location,
                                                 Bindings[k].inner))
                /\ lexer.tokens[parsed.result.error.location] =
                        IdentifierLexeme(Bindings[k].inner)

C22_Witness ==
    /\ ParserReturned("let")
    /\ Len(Bindings) = 2
    /\ Bindings[1].inner \in BuiltIns
    /\ Bindings[2].inner \in BuiltIns
    /\ parsed.result.error.kind = "ReservedIdentifier"

\* The arguments the function of the source declares, when its name and
\* the parenthesis after it are in place.
Declares(n) ==
    /\ ParserReturned("function")
    /\ TokenAt(lexer.tokens, 1).lexeme.class = "identifier"
    /\ TokenAt(lexer.tokens, 1).lexeme.text \notin BuiltIns
    /\ TokenAt(lexer.tokens, 2).lexeme = Symbol("(")
    /\ Len(ParseTypedList(lexer.tokens, 3, FALSE, <<>>).value) = n

Declared == ParseTypedList(lexer.tokens, 3, FALSE, <<>>).value

\* C23: a function with the near-call ABI prefix in its name and no
\* arguments is rejected with InvalidNumberOfArguments (1 expected, 0
\* found) and one with arguments loses the first; a near-call exception
\* handler with n > 0 arguments is rejected with InvalidNumberOfArguments
\* (0 expected, n found); any other function keeps its arguments.
C23_NearCallArities ==
    \A n \in 0..(MaxDeclared + 1) :
        Declares(n) =>
            LET name == lexer.tokens[1].text
                prefixed == Contains(name, NearCallAbiPrefix)
                handler == Contains(name, NearCallAbiExceptionHandler)
            IN  /\ (prefixed /\ n = 0) =>
                    FailedWith(InvalidNumberOfArguments(1, name, 1, 0))
                /\ (prefixed /\ n > 0 /\ parsed.result.ok) =>
                    parsed.result.value.arguments = Tail(Declared)
                /\ (handler /\ n > 0) =>
                    FailedWith(InvalidNumberOfArguments(1, name, 0, n))
                /\ (~prefixed /\ ~handler) =>
                    /\ parsed.result.ok =>
                        parsed.result.value.arguments = Declared
                    /\ ~parsed.result.ok =>
                        parsed.result.error.kind /= "InvalidNumberOfArguments"

\* C23 (amended): a function with the near-call ABI prefix in its name
\* and no arguments is rejected with InvalidNumberOfArguments (1 expected, 0
\* found) and one with arguments loses the first; a near-call exception
\* handler is rejected with InvalidNumberOfArguments (0 expected) when
\* arguments are left after that removal, and the number found is the
\* number left; any other function keeps its arguments.
C23_NearCallAritiesAfterRemoval ==
    \A n \in 0..(MaxDeclared + 1) :
        Declares(n) =>
            LET name == lexer.tokens[1].text
                prefixed == Contains(name, NearCallAbiPrefix)
                handler == Contains(name, NearCallAbiExceptionHandler)
                left == IF prefixed THEN n - 1 ELSE n
            IN  /\ (prefixed /\ n = 0) =>
                    FailedWith(InvalidNumberOfArguments(1, name, 1, 0))
                /\ (prefixed /\ n > 0 /\ parsed.result.ok) =>
                    parsed.result.value.arguments = Tail(Declared)
                /\ (handler /\ left > 0) =>
                    FailedWith(InvalidNumberOfArguments(1, name, 0, left))
                /\ (handler /\ prefixed /\ n = 1 /\ ~parsed.result.ok) =>
                    parsed.result.error.kind /= "InvalidNumberOfArguments"
                /\ (~prefixed /\ ~handler) =>
                    /\ parsed.result.ok =>
                        parsed.result.value.arguments = Declared
                    /\ ~parsed.result.ok =>
                        parsed.result.error.kind /= "InvalidNumberOfArguments"

C23_Witness ==
    /\ Declares(2)
    /\ Contains(lexer.tokens[1].text, NearCallAbiPrefix)
    /\ Contains(lexer.tokens[1].text, NearCallAbiExceptionHandler)
    /\ FailedWith(InvalidNumberOfArguments(1, lexer.tokens[1].text, 0, 1))

\* The parser has failed with InvalidToken at the token of the position,
\* with the lexeme there as what was found.
InvalidTokenAt(position) ==
    /\ ~parsed.result.ok
    /\ parsed.result.error.kind = "InvalidToken"
    /\ parsed.result.error.location = position
    /\ parsed.result.error.found = TokenAt(lexer.tokens, position).lexeme.text

Range(list) == {list[k] : k \in DOMAIN list}

\* The required positions of the object of the source that are reached, each
\* with the lexemes it takes and their names; `after` is the one after the
\* code.
ObjectHead ==
    <<[at |-> 1, takes |-> {Keyword("object")}, names |-> {"object"}],
      [at |-> 2, takes |-> {l \in Range(lexer.tokens) : l.class = "string"},
       names |-> {"{string}"}],
      [at |-> 3, takes |-> {Symbol("{")}, names |-> {"{"}]>>

HeadInPlace(head, n) ==
    \A k \in 1..n : TokenAt(lexer.tokens, head[k].at).lexeme \in head[k].takes

AfterCodeInPlace ==
    /\ HeadInPlace(ObjectHead, 3)
    /\ TokenAt(lexer.tokens, 4).lexeme = CodeLexeme

AfterCodeTakes == {Keyword("object"), DataLexeme, Symbol("}")}

\* The required positions of the function of the source: its name, the
\* parentheses around its arguments, and the arrow or the bracket.
FunctionList == ParseTypedList(lexer.tokens, 3, FALSE, <<>>)

FunctionHead ==
    <<[at |-> 1,
       takes |-> {l \in Range(lexer.tokens) :
                    l.class = "identifier" /\ IsUserDefined(l.text)},
       names |-> {"{identifier}"}],
      [at |-> 2, takes |-> {Symbol("(")}, names |-> {"("}],
      [at |-> FunctionList.next, takes |-> {Symbol(")")}, names |-> {")"}],
      [at |-> FunctionList.next + 1, takes |-> {Symbol("->"), Symbol("{")},
       names |-> {"->", "{"}]>>

\* The arities of the near call are in order, which the parser looks at
\* before the closing parenthesis.
AritiesInOrder ==
    /\ TokenAt(lexer.tokens, 1).lexeme.class = "identifier"
    /\ LET name == lexer.tokens[1].text
           n == Len(FunctionList.value)
           prefixed == Contains(name, NearCallAbiPrefix)
       IN  /\ prefixed => n > 0
           /\ Contains(name, NearCallAbiExceptionHandler) =>
                    n = (IF prefixed THEN 1 ELSE 0)

\* A reserved name of the function is ReservedIdentifier, not InvalidToken.
Offends(head, k) ==
    /\ HeadInPlace(head, k - 1)
    /\ TokenAt(lexer.tokens, head[k].at).lexeme \notin head[k].takes
    /\ TokenAt(lexer.tokens, head[k].at).lexeme.class = "identifier" =>
            TokenAt(lexer.tokens, head[k].at).lexeme.text \notin BuiltIns

HeadErrors(entry, head, positions) ==
    ParserReturned(entry) =>
        \A k \in positions :
            Offends(head, k) =>
                /\ InvalidTokenAt(head[k].at)
                /\ Range(parsed.result.error.expected) = head[k].names

RECURSIVE Excess(_, _, _)
Excess(tokens, from, to) ==
    IF to < from THEN 0
    ELSE Excess(tokens, from, to - 1)
            + (IF tokens[to] = Symbol("{") THEN 1 ELSE -1)

\* The positions of the closing brackets that match the opening one at
\* `from`: the first where the excess is back to zero.
Matches(tokens, from) ==
    {p \in (from + 1)..Len(tokens) :
        /\ Excess(tokens, from, p) = 0
        /\ \A q \in from..(p - 1) : Excess(tokens, from, q) > 0}

Matching(tokens, from) == CHOOSE p \in Matches(tokens, from) : TRUE

\* The block of the bracket pair from..to: one nested block for each pair
\* right inside it, in the order of the source.
RECURSIVE Pairs(_, _, _)
RECURSIVE Nested(_, _, _)
Pairs(tokens, from, to) ==
    [statements |-> Nested(tokens, from + 1, to)]

Nested(tokens, at, to) ==
    IF at >= to THEN <<>>
    ELSE LET close == Matching(tokens, at)
         IN  <<StatementBlock(Pairs(tokens, at, close))>>
                \o Nested(tokens, close + 1, to)

\* C25: on a source of curly brackets Block::parse succeeds exactly when
\* the source starts with an opening bracket that has a matching closing
\* one; it then stops right after that bracket and returns one nested block
\* for each bracket pair inside, in the order and at the depth of the
\* source; it returns an error when the source ends before that bracket.
C25_BlockParseBalanced ==
    ParserReturned("block") =>
        LET tokens == lexer.tokens
            opened == tokens /= <<>> /\ tokens[1] = Symbol("{")
            matched == opened /\ Matches(tokens, 1) /= {}
        IN  /\ parsed.result.ok <=> matched
            /\ matched =>
                /\ parsed.result.next = Matching(tokens, 1) + 1
                /\ parsed.result.value =
                        Pairs(tokens, 1, Matching(tokens, 1))
            /\ (opened /\ ~matched) =>
                /\ ~parsed.result.ok
                /\ parsed.result.error.found = EndOfFile.text

\* `{ {{}} {} } }`: two pairs inside, the first with a pair of its own, and
\* a bracket left over.
C25_Witness ==
    /\ ParserReturned("block")
    /\ parsed.result.ok
    /\ Len(parsed.result.value.statements) = 2
    /\ Len(parsed.result.value.statements[1].statements) = 1
    /\ parsed.result.value.statements[2].statements = <<>>
    /\ parsed.result.next < Len(lexer.tokens) + 1

\* The keys of the nested assemblies of the deploy code before the pass.
Dependencies ==
    IF ~passed.before.data.some THEN {}
    ELSE {index \in DOMAIN passed.before.data.value :
            /\ index /= RuntimeIndex
            /\ passed.before.data.value[index].data = "Assembly"}

PathOf(index) ==
    assembly.hash_data_mapping[Keccak256(passed.before.data.value[index])]

\* C26: deploy_dependencies_pass succeeds exactly when the fingerprint of
\* every nested assembly under an index other than "0" is in the mapping
\* from hashes to paths, and fails with `Contract path not found for hash`
\* otherwise; after success every such entry is the path mapped, the
\* factory dependencies of the deploy code have gained exactly those paths,
\* every other entry is as before, and the map returned has the own path
\* under the index of zeros and the path of every replaced entry under its
\* index padded with zeros.
C26_DeployDependenciesPass ==
    passed.pc = "returned" =>
        LET known == \A index \in Dependencies :
                        Keccak256(passed.before.data.value[index])
                            \in DOMAIN assembly.hash_data_mapping
            before == passed.before
            after == assembly.self
        IN  /\ passed.result.ok <=> known
            /\ ~known =>
                passed.result.error.message = "Contract path not found for hash"
            /\ known =>
                /\ after.data.some = before.data.some
                /\ after.data.some =>
                    /\ DOMAIN after.data.value = DOMAIN before.data.value
                    /\ \A index \in DOMAIN before.data.value :
                        after.data.value[index] =
                            IF index \in Dependencies
                            THEN DataPath(PathOf(index))
                            ELSE before.data.value[index]
                /\ after.deploy_factory_dependencies =
                        before.deploy_factory_dependencies
                            \cup {PathOf(index) : index \in Dependencies}
                /\ Len(ZeroIndex) = SizeField * 2
                /\ passed.result.value[ZeroIndex] = assembly.full_path
                /\ \A index \in Dependencies :
                    \E padded \in DOMAIN passed.result.value :
                        /\ Len(padded) = SizeField * 2
                        /\ \A k \in 1..Len(padded) :
                            padded[k] =
                                IF k <= Len(padded) - Len(index) THEN "0"
                                ELSE index[k - (Len(padded) - Len(index))]
                        /\ passed.result.value[padded] = PathOf(index)

C26_Witness ==
    /\ passed.pc = "returned"
    /\ passed.result.ok
    /\ Cardinality(Dependencies) = 2
    /\ Cardinality(assembly.self.deploy_factory_dependencies) = 2
    /\ RuntimeIndex \in DOMAIN assembly.self.data.value
    /\ ConstantIndex \in DOMAIN assembly.self.data.value

\* The output files of the call that has returned.
Outputs == {written.outputs[k] : k \in DOMAIN written.outputs}

\* C30: write_to_directory without `overwrite` leaves every file that
\* exists in the directory as it is; it writes a file of the build only if
\* the file is selected and does not exist, and an existing file neither
\* fails the call nor keeps the files after it from being written; with
\* `overwrite` every selected file is written. A file is written when it can
\* be created, and the ABI is selected when the contract has one.
C30_NoOverwriteUnlessForced ==
    written.pc = "returned" =>
        LET before == written.before
            fails == \E entry \in Outputs :
                        /\ entry.selected
                        /\ entry.file_path \in written.denied
                        /\ written.overwrite \/ entry.file_path \notin DOMAIN before
        IN  /\ ~written.overwrite =>
                /\ \A file_path \in DOMAIN before :
                    /\ file_path \in DOMAIN directory
                    /\ directory[file_path] = before[file_path]
                /\ \A file_path \in DOMAIN directory \ DOMAIN before :
                    \E entry \in Outputs :
                        /\ entry.file_path = file_path
                        /\ entry.selected
                        /\ directory[file_path] = entry.bytes
            /\ written.ok <=> ~fails
            /\ written.ok =>
                \A entry \in Outputs :
                    (/\ entry.selected
                     /\ written.overwrite \/ entry.file_path \notin DOMAIN before) =>
                        /\ entry.file_path \in DOMAIN directory
                        /\ directory[entry.file_path] = entry.bytes

\* Without `overwrite` the first file exists and is kept, and the files
\* after it are written.
C30_Witness ==
    /\ written.pc = "returned"
    /\ ~written.overwrite
    /\ written.ok
    /\ Cardinality(DOMAIN written.before) = 1
    /\ written.outputs[1].file_path \in DOMAIN written.before
    /\ directory[written.outputs[1].file_path] = "old"
    /\ Cardinality(DOMAIN directory) = 5

\* The calls that have reached the loop over the factory dependencies.
Collecting == {t \in Threads : At(t, "collect")}

\* The dependency has a path in the project and the slot of the path holds a
\* build.
KnownAndBuilt(dependency) ==
    /\ dependency \in DOMAIN IdentifierPaths
    /\ Slot(IdentifierPaths[dependency]).kind = "Build"

\* C27: when the compilation of a contract is in the loop that collects the
\* hashes of its factory dependencies, every one of them has a path and a
\* slot that holds a build, whether the lowering has requested it or not, so
\* that the loop panics neither with `full path not found` nor with `must
\* be built at this point`.
C27_FactoryDependenciesBuilt ==
    \A t \in Collecting :
        \A dependency \in factory[Top(t).path] : KnownAndBuilt(dependency)

\* The states a slot of the table holds.
SlotKinds == {"Source", "Waiter", "Build", "Error"}

\* C28: while nobody holds the lock of the project the table has a slot for
\* every path the project was built with and for no other; a slot is out of
\* the table only for the path of the call that holds the lock, between its
\* `remove` and its `insert`; and the `remove` of a call finds a slot, for
\* the paths of compile_all and for those of resolve_path.
C28_TableComplete ==
    /\ DOMAIN contract_states = Paths
    /\ lock = NoThread =>
        \A p \in Paths :
            /\ contract_states[p].kind \in SlotKinds
            /\ contract_states[p].of = p
    /\ \A p \in Paths :
        contract_states[p].kind = "Absent" =>
            /\ lock \in Threads
            /\ At(lock, "removed")
            /\ Top(lock).path = p
    /\ \A t \in Threads :
        /\ \A i \in Frames(t) : stack[t][i].path \in Paths
        /\ At(t, "removed") =>
            /\ Top(t).st.kind \in SlotKinds
            /\ Top(t).st.of = Top(t).path

\* A call for a path of resolve_path has put the waiter it found back and
\* dropped the lock.
C28_Witness ==
    /\ lock = NoThread
    /\ \E t \in Threads :
        /\ Len(stack[t]) = 2
        /\ At(t, "prewait")
        /\ contract_states[Top(t).path].kind = "Waiter"

\* The path the plan of contract p asks for, 0 when it asks for none or for
\* a name without a path.
PlannedPath(p) ==
    IF plan[p].request.none \/ ~ResolvePath(Requested(p)).ok THEN 0
    ELSE ResolvePath(Requested(p)).path

RECURSIVE PlannedFrom(_, _)
\* The paths the plan reaches from path p in at most n requests.
PlannedFrom(p, n) ==
    IF n = 0 \/ PlannedPath(p) = 0 THEN {}
    ELSE {PlannedPath(p)} \cup PlannedFrom(PlannedPath(p), n - 1)

\* No contract of the plan asks, through the others, for itself.
AcyclicPlan == \A p \in Paths : p \notin PlannedFrom(p, NumContracts)

RECURSIVE Outcome(_, _)
\* What the compilation of contract p comes to when every compilation does
\* what its source lays down: an error when its request cannot be resolved,
\* when the contract asked for comes to an error, or when its own code
\* fails; a build otherwise.
Outcome(p, n) ==
    IF plan[p].request.none THEN (IF plan[p].ok THEN Build(p) ELSE Error(p))
    ELSE IF PlannedPath(p) = 0 \/ n = 0 THEN Error(p)
    ELSE IF Outcome(PlannedPath(p), n - 1).kind = "Error" THEN Error(p)
    ELSE IF plan[p].ok THEN Build(p) ELSE Error(p)

\* C29: on a fixed project without cycles compile_all returns the same
\* value under every interleaving of the workers: the builds of all the
\* contracts when each comes to a build, and otherwise the error of the
\* failed contract that is first in the order of the paths.
C29_ResultDetermined ==
    (AcyclicPlan /\ result.kind # "none") =>
        result = Aggregate([p \in Paths |-> Outcome(p, NumContracts)], 1, {})

====
